---- MODULE Spec2Model ----
(***************************************************************************)
(* tigerflow: a supervisor (Pipeline) and per-task runtimes (LocalTask)    *)
(* that communicate only through the files of the workspace.               *)
(*                                                                         *)
(* File names are sequences of one-character strings, so that endswith,    *)
(* removesuffix and Path.suffix are computed on names as the code does.    *)
(* Directories are sets of names.                                          *)
(***************************************************************************)
EXTENDS Integers, Sequences, FiniteSets, TLC

----------------------------------------------------------------------------
(* Bounds *)

\* number of times the supervisor is constructed and run against the workspace
MaxRuns == 2

\* the count of success outputs per task and stem saturates here
MaxProduced == 2

----------------------------------------------------------------------------
(* Names *)

\* str.endswith
EndsWith(name, ext) ==
    /\ Len(name) >= Len(ext)
    /\ SubSeq(name, Len(name) - Len(ext) + 1, Len(name)) = ext

\* str.removesuffix
RemoveSuffix(name, ext) ==
    IF ext # <<>> /\ EndsWith(name, ext)
    THEN SubSeq(name, 1, Len(name) - Len(ext))
    ELSE name

\* pathlib's Path.suffix: from the last dot, unless the dot leads or ends the name
Suffix(name) ==
    LET dots == {i \in 2..(Len(name) - 1) : name[i] = "."}
    IN  IF dots = {} THEN <<>>
        ELSE LET last == CHOOSE i \in dots : \A j \in dots : j <= i
             IN  SubSeq(name, last, Len(name))

ErrExt == <<".", "e", "r", "r">>

\* the stems of the files the operator puts into the input directory
Stems == {<<"a">>, <<"b">>}

\* a plausible slip: mkstemp(suffix=output_ext, dir=...)
MkstempNamesWithExt == {<<"t", "m", "p", "_", ".", "o">>}

\* tempfile.mkstemp(dir=...): prefix "tmp" and random characters, none a dot
MkstempNames == {<<"t", "m", "p", "_">>}

Mkstemp(dir) == MkstempNames \ dir

----------------------------------------------------------------------------
(* Task configurations, as PipelineConfig validation leaves them: unique    *)
(* names, parents first, parent.output_ext = child.input_ext.               *)

NoTask == "none"

Task(name, depends_on, input_ext, output_ext, keep_output) ==
    [name |-> name, depends_on |-> depends_on, input_ext |-> input_ext,
     output_ext |-> output_ext, keep_output |-> keep_output]

SingleConfig ==
    << Task("T1", NoTask, <<".", "t">>, <<".", "t">>, FALSE) >>

ChainConfig ==
    << Task("T1", NoTask, <<".", "t">>, <<".", "o">>, TRUE),
       Task("T2", "T1", <<".", "o">>, <<".", "p">>, FALSE) >>

BranchConfig ==
    << Task("T1", NoTask, <<".", "t">>, <<".", "o">>, FALSE),
       Task("T2", "T1", <<".", "o">>, <<".", "p">>, FALSE),
       Task("T3", "T1", <<".", "o">>, <<".", "q">>, TRUE) >>

TaskNames == {"T1", "T2", "T3"}

\* a configuration, the input files present when the first run begins, and
\* the delete_input flag of the runs
Scenario(cfg, inputs, delete) ==
    [tasks |-> cfg, inputs |-> inputs, delete_input |-> delete]

Scenarios ==
    { Scenario(SingleConfig, Stems, FALSE),
      Scenario(SingleConfig, Stems, TRUE),
      Scenario(ChainConfig, Stems, FALSE),
      Scenario(BranchConfig, {<<"a">>}, FALSE),
      Scenario(BranchConfig, {<<"a">>}, TRUE) }

NamesOf(cfg) == {cfg[i].name : i \in 1..Len(cfg)}

TaskByName(cfg, n) == cfg[CHOOSE i \in 1..Len(cfg) : cfg[i].name = n]

\* PipelineConfig.root_task / root_input_ext
RootInputExt(cfg) ==
    cfg[CHOOSE i \in 1..Len(cfg) :
            /\ cfg[i].depends_on = NoTask
            /\ \A j \in 1..(i - 1) : cfg[j].depends_on # NoTask].input_ext

\* a plausible slip: the last task of the topological order is the terminal task
TerminalTasksLastOnly(cfg) == {cfg[Len(cfg)].name}

\* PipelineConfig.terminal_tasks
TerminalTasks(cfg) ==
    LET parents == {cfg[i].depends_on : i \in {j \in 1..Len(cfg) : cfg[j].depends_on # NoTask}}
    IN  {cfg[i].name : i \in {j \in 1..Len(cfg) : cfg[j].name \notin parents}}

----------------------------------------------------------------------------
(* State *)

VARIABLES
    tasks,            \* PipelineConfig.tasks of this workspace
    delete_input,     \* Pipeline._delete_input
    input_dir,        \* names of the regular files of the input directory
    symlinks,         \* names in .tigerflow/.symlinks (each links to input_dir/name)
    finished,         \* names in .tigerflow/.finished
    taskdir,          \* task name -> names of the files in .tigerflow/<task>/
    visible,          \* task name -> names of the files in <output_dir>/<task>/
    sup_pc,           \* where the supervisor process is
    runs,             \* how many times the supervisor was started
    filenames,        \* Pipeline._filenames
    task_error_files, \* Pipeline._task_error_files
    completed,        \* completed_file_ids of the harvest in progress
    clean_i,          \* index into tasks of the clean-up loop
    clean_todo,       \* file ids the clean-up loop has not reached for tasks[clean_i]
    rec_todo,         \* file ids the record loop has not reached
    rec_cur,          \* file id the record loop is at
    rt_pc,            \* task name -> where that task's runtime process is
    rt_processed,     \* task name -> processed_ids of the scan in progress
    rt_batch,         \* task name -> unprocessed_files not yet iterated
    rt_cur,           \* task name -> input file of the callback in progress
    rt_tmp,           \* task name -> temp_path of the atomic_write in progress
    produced,         \* task name -> stem -> success outputs written during this run
    settled,          \* task name -> stems that had an output or .err during this run
    aw_dir,           \* atomic_write: file name -> content of the file, or Absent
    aw_pc,            \* atomic_write: where the writer is
    aw_target,        \* atomic_write: filepath
    aw_tmp,           \* atomic_write: temp_path
    aw_written,       \* atomic_write: chunks the callback has written
    aw_calls,         \* atomic_write: calls made so far
    aw_before         \* atomic_write: content of filepath when the call began

VARIABLES
    pf_exists,        \* run.pid: whether the file exists
    pf_content,       \* run.pid: its text, a sequence of characters
    pf_procs,         \* the operating system's answer to os.kill(pid, 0), per pid
    pf_pc,            \* check_and_cleanup_stale_pid: where the caller is
    pf_ret,           \* check_and_cleanup_stale_pid: the value returned
    pf_before,        \* run.pid when the call began: [exists, content]
    lk_pc,            \* run invocation -> where it is
    lk_pid,           \* run invocation -> pid read by read_pid_file
    lk_exit           \* run invocation -> exit code, NoExit while it has none

VARIABLES
    lf_pc,            \* Pipeline.run: where the supervisor is
    lf_i,             \* _start_tasks: index of the task to start next
    lf_shutdown,      \* Pipeline._shutdown_event
    lf_signal,        \* Pipeline._received_signal, NoSignal for None
    lf_status,        \* Pipeline._task_status: task -> kind of the recorded status
    lf_proc,          \* task -> what its subprocess or cluster job really is
    lf_term,          \* task -> a cancel was sent to it
    lf_cancels,       \* task -> the cancels sent to it, in order
    lf_starts,        \* task -> how many times it was started
    lf_teardowns,     \* how many times the shutdown sequence was entered
    lf_delivered,     \* signals delivered to the supervisor so far
    lf_raised,        \* an exception is propagating out of run
    lf_cause,         \* what started the shutdown sequence
    lf_exit           \* exit code of the supervisor, NoExit while it has none

VARIABLES
    gr_cfg,           \* the tasks as the configuration file lists them
    gr_pc,            \* where loading the configuration and starting the tasks is
    gr_result,        \* what validate_task_dependency_graph did: "ok" or the error
    gr_tasks,         \* PipelineConfig.tasks after validation
    gr_started        \* names of the tasks _start_tasks has started, in order

VARIABLES
    st_candidates,    \* StagingPipeline.process: the candidates it was called with
    st_staged,        \* PipelineState.staged
    st_steps,         \* StagingPipeline.steps
    st_pc,            \* StagingPipeline.process: "none", "ready" or "returned"
    st_result,        \* StagingPipeline.process: the list returned
    st_calls          \* the list each invoked step was called with, in order

VARIABLES
    cx_attrs,         \* SetupContext: attribute name -> its value, or NoAttr
    cx_last,          \* the last operation on the context and whether it raised
    cx_before,        \* cx_attrs when that operation began
    cx_froze          \* freeze() has returned at least once

VARIABLES
    rn_variant,       \* which runtime runs: "S" LocalTask, "A" LocalAsyncTask, "C" SlurmTask
    rn_input,         \* files of the runtime's input directory
    rn_out,           \* files whose output is in the output directory
    rn_err,           \* files whose .err is in the output directory
    rn_pc,            \* start(): where the runtime's main line is
    rn_ctx,           \* context -> setup calls, frozen, teardown calls, used by a callback
    rn_signals,       \* signals delivered to the runtime process
    sq_batch,         \* LocalTask: unprocessed_files not yet iterated
    sq_cur,           \* LocalTask: files whose callback is running (at most one)
    as_limit,         \* LocalAsyncTask._concurrency_limit
    as_queue,         \* LocalAsyncTask._queue
    as_in_queue,      \* LocalAsyncTask._in_queue
    as_wpc,           \* worker -> where that worker coroutine is
    as_wfile,         \* worker -> files it holds (at most one)
    as_cancel,        \* workers whose cancellation was requested and not yet delivered
    as_ppc,           \* where the poll coroutine is
    as_pcancel,       \* the poll coroutine's cancellation was requested
    as_shutdown,      \* LocalAsyncTask._shutdown_event
    sl_plugin,        \* SlurmTask: TaskWorkerPlugin is registered
    sl_worker,        \* cluster worker -> "absent", "up" or "closed"
    sl_batch,         \* SlurmTask: unprocessed_files not yet iterated
    sl_keys,          \* SlurmTask: list(active_futures.keys()) not yet iterated
    sl_active,        \* SlurmTask: keys of active_futures
    sl_live,          \* file -> work units submitted for it and not done
    sl_unit           \* file -> status and worker of the unit submitted last

VARIABLES
    strays,           \* names of the entries of .symlinks that are not symlinks
    swept,            \* what the last Pipeline.__init__ removed from .symlinks and kept in the task directories
    killed,           \* task name -> input files whose callback a kill interrupted
    starts            \* how many times a runtime was started by hand

fsvars  == <<input_dir, symlinks, finished, taskdir, visible>>
supvars == <<sup_pc, runs, filenames, task_error_files, completed,
             clean_i, clean_todo, rec_todo, rec_cur>>
rtvars  == <<rt_pc, rt_processed, rt_batch, rt_cur, rt_tmp>>
histvars == <<produced, settled>>
awvars == <<aw_dir, aw_pc, aw_target, aw_tmp, aw_written, aw_calls, aw_before>>
\* what no step of the supervisor or of a runtime changes
pidvars == <<pf_exists, pf_content, pf_procs, pf_pc, pf_ret, pf_before>>
lockvars == <<lk_pc, lk_pid, lk_exit>>
\* the state of the components that run outside the main loop and the runtimes
lifevars == <<lf_pc, lf_i, lf_shutdown, lf_signal, lf_status, lf_proc, lf_term,
              lf_cancels, lf_starts, lf_teardowns, lf_delivered, lf_raised, lf_cause, lf_exit>>
graphvars == <<gr_cfg, gr_pc, gr_result, gr_tasks, gr_started>>
stagevars == <<st_candidates, st_staged, st_steps, st_pc, st_result, st_calls>>
\* the staging chain and the task runtimes' own machinery
ctxvars == <<cx_attrs, cx_last, cx_before, cx_froze>>
rnvars == <<rn_variant, rn_input, rn_out, rn_err, rn_pc, rn_ctx, rn_signals>>
seqvars == <<sq_batch, sq_cur>>
asyncvars == <<as_limit, as_queue, as_in_queue, as_wpc, as_wfile, as_cancel,
               as_ppc, as_pcancel, as_shutdown>>
slurmvars == <<sl_plugin, sl_worker, sl_batch, sl_keys, sl_active, sl_live, sl_unit>>
runtimevars == <<rnvars, seqvars, asyncvars, slurmvars>>
\* the workspace as an operator or a crash left it, and what recovery did
recvars == <<strays, swept, killed, starts>>
compvars == <<stagevars, ctxvars, runtimevars, recvars>>
extvars == <<pidvars, lockvars, lifevars, graphvars, compvars>>
fixedvars == <<tasks, delete_input, awvars, extvars>>
vars == <<fixedvars, fsvars, supvars, rtvars, histvars>>

NoName == <<>>

Names == NamesOf(tasks)
Cfg(t) == TaskByName(tasks, t)
OutputName(t, file_id) == file_id \o Cfg(t).output_ext
ErrName(file_id) == file_id \o ErrExt

\* a plausible slip: the root task is given the input directory itself
InputFilesUnstaged(t) ==
    IF Cfg(t).depends_on = NoTask
    THEN input_dir
    ELSE taskdir[Cfg(t).depends_on]

\* task.input_dir as Pipeline.__init__ maps it; is_file() follows a symlink
InputFiles(t) ==
    IF Cfg(t).depends_on = NoTask
    THEN {n \in symlinks : n \in input_dir}
    ELSE taskdir[Cfg(t).depends_on]

----------------------------------------------------------------------------
(* Task._remove_temporary_files and Task._get_unprocessed_files *)

\* a plausible slip: start() does not call it
RemoveTemporaryFilesNoop(dir) == dir

RemoveTemporaryFiles(dir) == {n \in dir : Suffix(n) # <<>>}

\* lines 123-128
ProcessedIds(out_dir, output_ext) ==
    {RemoveSuffix(pair[1], pair[2]) :
        pair \in {p \in out_dir \X {output_ext, ErrExt} : EndsWith(p[1], p[2])}}

\* lines 130-136
UnprocessedFiles(in_dir, input_ext, processed_ids) ==
    {f \in in_dir :
        /\ EndsWith(f, input_ext)
        /\ RemoveSuffix(f, input_ext) \notin processed_ids}

GetUnprocessedFiles(in_dir, input_ext, out_dir, output_ext) ==
    UnprocessedFiles(in_dir, input_ext, ProcessedIds(out_dir, output_ext))

----------------------------------------------------------------------------
(* Pipeline.__init__ *)

\* a plausible slip: the flag is not consulted
InputAfterDeleteAlways(del, inp, fin) == inp \ fin

\* the files deleted when delete_input is set
InputAfterDelete(del, inp, fin) == IF del THEN inp \ fin ELSE inp

\* symlinks whose target is missing
Broken(sym, inp) == {n \in sym : n \notin inp}

\* a plausible slip: the sweep spares the error reports
SweptTaskDirKeepsErr(task, dir, broken, root_ext) ==
    LET cascade == {RemoveSuffix(n, root_ext) \o task.output_ext : n \in broken}
    IN  {n \in dir \ cascade : EndsWith(n, task.output_ext) \/ EndsWith(n, ErrExt)}

\* a plausible slip: the outputs of an orphaned stem are left behind
SweptTaskDirNoCascade(task, dir, broken, root_ext) ==
    {n \in dir : EndsWith(n, task.output_ext)}

\* a task directory after the sweep of broken symlinks and of invalid outputs
SweptTaskDir(task, dir, broken, root_ext) ==
    LET cascade == {RemoveSuffix(n, root_ext) \o task.output_ext : n \in broken}
    IN  {n \in dir \ cascade : EndsWith(n, task.output_ext)}

\* a plausible slip: only the staged files are remembered
KnownFilenamesStagedOnly(sym, fin) == sym

\* self._filenames
KnownFilenames(sym, fin) == sym \cup fin

EmptyByTask == [t \in TaskNames |-> {}]
ZeroProduced == [t \in TaskNames |-> [s \in Stems |-> 0]]

\* the workspace before the first run
\* no supervisor and no runtime: the workspace is empty and nothing runs
PipeIdle ==
    /\ tasks = SingleConfig
    /\ input_dir = {}
    /\ delete_input = FALSE
    /\ symlinks = {}
    /\ finished = {}
    /\ taskdir = EmptyByTask
    /\ visible = EmptyByTask
    /\ sup_pc = "down"
    /\ runs = 0
    /\ filenames = {}
    /\ task_error_files = EmptyByTask
    /\ completed = {}
    /\ clean_i = 0
    /\ clean_todo = {}
    /\ rec_todo = {}
    /\ rec_cur = NoName
    /\ rt_pc = [t \in TaskNames |-> "dead"]
    /\ rt_processed = EmptyByTask
    /\ rt_batch = EmptyByTask
    /\ rt_cur = [t \in TaskNames |-> NoName]
    /\ rt_tmp = [t \in TaskNames |-> NoName]
    /\ produced = ZeroProduced
    /\ settled = EmptyByTask

InitPipeline ==
    /\ \E sc \in Scenarios :
          /\ tasks = sc.tasks
          /\ input_dir = {s \o RootInputExt(sc.tasks) : s \in sc.inputs}
          /\ delete_input = sc.delete_input
    /\ symlinks = {}
    /\ finished = {}
    /\ taskdir = EmptyByTask
    /\ visible = EmptyByTask
    /\ sup_pc = "down"
    /\ runs = 0
    /\ filenames = {}
    /\ task_error_files = EmptyByTask
    /\ completed = {}
    /\ clean_i = 0
    /\ clean_todo = {}
    /\ rec_todo = {}
    /\ rec_cur = NoName
    /\ rt_pc = [t \in TaskNames |-> "dead"]
    /\ rt_processed = EmptyByTask
    /\ rt_batch = EmptyByTask
    /\ rt_cur = [t \in TaskNames |-> NoName]
    /\ rt_tmp = [t \in TaskNames |-> NoName]
    /\ produced = ZeroProduced
    /\ settled = EmptyByTask

----------------------------------------------------------------------------
(* Single-instance lock: .tigerflow/run.pid and the functions that read it.  *)
(* The text of the file is a sequence of characters; int(text.strip()) is    *)
(* computed on it.                                                           *)

\* longest text of run.pid
MaxPidLen == 2

\* characters run.pid is made of: white space, digits, anything else
PidAlphabet == {" ", "1", "2", "x"}
PidTexts == UNION {[1..n -> PidAlphabet] : n \in 0..MaxPidLen}

Digits == {"0", "1", "2", "3", "4", "5", "6", "7", "8", "9"}
DigitValue(c) ==
    CASE c = "0" -> 0 [] c = "1" -> 1 [] c = "2" -> 2 [] c = "3" -> 3
      [] c = "4" -> 4 [] c = "5" -> 5 [] c = "6" -> 6 [] c = "7" -> 7
      [] c = "8" -> 8 [] c = "9" -> 9
DigitChar(d) ==
    CASE d = 0 -> "0" [] d = 1 -> "1" [] d = 2 -> "2" [] d = 3 -> "3"
      [] d = 4 -> "4" [] d = 5 -> "5" [] d = 6 -> "6" [] d = 7 -> "7"
      [] d = 8 -> "8" [] d = 9 -> "9"

\* str.strip
RECURSIVE LStrip(_)
LStrip(s) == IF s # <<>> /\ Head(s) = " " THEN LStrip(Tail(s)) ELSE s
RECURSIVE RStrip(_)
RStrip(s) ==
    IF s # <<>> /\ s[Len(s)] = " " THEN RStrip(SubSeq(s, 1, Len(s) - 1)) ELSE s
Strip(s) == RStrip(LStrip(s))

\* int(text): the value of a non-empty sequence of digits
RECURSIVE IntOf(_)
IntOf(s) ==
    IF s = <<>> THEN 0
    ELSE 10 * IntOf(SubSeq(s, 1, Len(s) - 1)) + DigitValue(s[Len(s)])
IsInt(s) == s # <<>> /\ \A i \in 1..Len(s) : s[i] \in Digits

\* str(pid)
RECURSIVE StrOf(_)
StrOf(n) == IF n < 10 THEN <<DigitChar(n)>> ELSE StrOf(n \div 10) \o <<DigitChar(n % 10)>>

\* read_pid_file returns None
NoPid == -1

\* read_pid_file: None when the file is missing or int() raises ValueError
ReadPidFile(exists, content) ==
    IF ~exists THEN NoPid
    ELSE IF IsInt(Strip(content)) THEN IntOf(Strip(content)) ELSE NoPid

\* pids the operating system may know; every other pid has no process
OsPids == {1, 12}
ProbeResults == {"running", "denied", "gone"}
\* os.kill(pid, 0): returns, raises PermissionError, raises ProcessLookupError
Probe(procs, pid) == IF pid \in DOMAIN procs THEN procs[pid] ELSE "gone"

\* a plausible slip: PermissionError taken as "no such process"
IsProcessRunningDeniedIsGone(procs, pid) == Probe(procs, pid) = "running"

\* is_process_running
IsProcessRunning(procs, pid) == Probe(procs, pid) \in {"running", "denied"}

\* check_and_cleanup_stale_pid: the value returned and the file afterwards
CheckAndCleanupStalePid(exists, content, procs) ==
    LET pid == ReadPidFile(exists, content)
    IN  IF pid = NoPid
        THEN [ret |-> FALSE, exists |-> exists, content |-> content]
        ELSE IF IsProcessRunning(procs, pid)
        THEN [ret |-> TRUE, exists |-> exists, content |-> content]
        ELSE [ret |-> FALSE, exists |-> FALSE, content |-> <<>>]

\* the two run invocations, by their pids
Runners == {1, 12}
NoExit == -1

PidIdle ==
    /\ pf_exists = FALSE
    /\ pf_content = <<>>
    /\ pf_procs = [p \in OsPids |-> "gone"]
    /\ pf_pc = "idle"
    /\ pf_ret = FALSE
    /\ pf_before = [exists |-> FALSE, content |-> <<>>]

LockIdle ==
    /\ lk_pc = [r \in Runners |-> "none"]
    /\ lk_pid = [r \in Runners |-> NoPid]
    /\ lk_exit = [r \in Runners |-> NoExit]

----------------------------------------------------------------------------
(* Pipeline.run: start, main loop, signals and the shutdown sequence.  The   *)
(* work of a tick on the files is in the actions of the main loop further    *)
(* down; here a tick is the sequence of its calls.                           *)

\* signal.SIGHUP, signal.SIGINT, signal.SIGTERM
Signals == {1, 2, 15}
NoSignal == 0

\* the supervisor's own pid
SupPid == 1

\* a local task and a Slurm task, in the order of PipelineConfig.tasks
LifeTasks == <<[name |-> "L", kind |-> "local"], [name |-> "S", kind |-> "slurm"]>>
LifeNames == {LifeTasks[i].name : i \in 1..Len(LifeTasks)}
LifeKind(t) == LifeTasks[CHOOSE i \in 1..Len(LifeTasks) : LifeTasks[i].name = t].kind

\* TaskStatus.is_alive
IsAlive(kind) == kind # "INACTIVE"

\* _get_subprocess_status and get_slurm_task_status, from what the task is
StatusOf(proc) ==
    CASE proc = "running" -> "ACTIVE"
      [] proc = "pending" -> "PENDING"
      [] OTHER -> "INACTIVE"

LifeIdle ==
    /\ lf_pc = "none"
    /\ lf_i = 1
    /\ lf_shutdown = FALSE
    /\ lf_signal = NoSignal
    /\ lf_status = [t \in LifeNames |-> "INACTIVE"]
    /\ lf_proc = [t \in LifeNames |-> "unstarted"]
    /\ lf_term = [t \in LifeNames |-> FALSE]
    /\ lf_cancels = [t \in LifeNames |-> <<>>]
    /\ lf_starts = [t \in LifeNames |-> 0]
    /\ lf_teardowns = 0
    /\ lf_delivered = {}
    /\ lf_raised = FALSE
    /\ lf_cause = "none"
    /\ lf_exit = NoExit

GraphIdle ==
    /\ gr_cfg = <<>>
    /\ gr_pc = "none"
    /\ gr_result = "none"
    /\ gr_tasks = <<>>
    /\ gr_started = <<>>

StageIdle ==
    /\ st_candidates = <<>>
    /\ st_staged = 0
    /\ st_steps = <<>>
    /\ st_pc = "none"
    /\ st_result = <<>>
    /\ st_calls = <<>>

CtxIdle ==
    /\ cx_attrs = <<>>
    /\ cx_last = <<>>
    /\ cx_before = <<>>
    /\ cx_froze = FALSE

RuntimeIdle ==
    /\ rn_variant = "none"
    /\ rn_input = {} /\ rn_out = {} /\ rn_err = {}
    /\ rn_pc = "none"
    /\ rn_ctx = <<>>
    /\ rn_signals = {}
    /\ sq_batch = {} /\ sq_cur = {}
    /\ as_limit = 0
    /\ as_queue = <<>> /\ as_in_queue = {}
    /\ as_wpc = <<>> /\ as_wfile = <<>>
    /\ as_cancel = {}
    /\ as_ppc = "none" /\ as_pcancel = FALSE
    /\ as_shutdown = FALSE
    /\ sl_plugin = FALSE
    /\ sl_worker = <<>>
    /\ sl_batch = {} /\ sl_keys = {} /\ sl_active = {}
    /\ sl_live = <<>> /\ sl_unit = <<>>

NothingSwept == [broken |-> {}, strays |-> {}, kept |-> [t \in TaskNames |-> {}]]

RecIdle ==
    /\ strays = {}
    /\ swept = NothingSwept
    /\ killed = [t \in TaskNames |-> {}]
    /\ starts = 0

CompIdle == StageIdle /\ CtxIdle /\ RuntimeIdle /\ RecIdle

ExtIdle == PidIdle /\ LockIdle /\ LifeIdle /\ GraphIdle /\ CompIdle

----------------------------------------------------------------------------
(* utils.atomic_write: the content of a file is <<call, chunks>>, the call   *)
(* that wrote it (0: it was there before) and how many chunks it holds.      *)

\* chunks a callback writes before it returns
Chunks == 2

\* calls of atomic_write in one behaviour
MaxCalls == 3

Absent == <<>>
Prior == <<0, Chunks>>
Complete(content) == content # Absent /\ content[2] = Chunks

AwTargets == {<<"a", ".", "o">>, <<"a", ".", "e", "r", "r">>}
AwFiles == AwTargets \cup MkstempNames

\* what no step of atomic_write changes
pipevars == <<tasks, delete_input, fsvars, supvars, rtvars, histvars, extvars>>

AwIdle ==
    /\ aw_dir = [n \in AwFiles |-> Absent]
    /\ aw_pc = "idle"
    /\ aw_target = NoName
    /\ aw_tmp = NoName
    /\ aw_written = 0
    /\ aw_calls = 0
    /\ aw_before = Absent

InitAtomic ==
    /\ tasks = SingleConfig
    /\ input_dir = {}
    /\ delete_input = FALSE
    /\ symlinks = {}
    /\ finished = {}
    /\ taskdir = EmptyByTask
    /\ visible = EmptyByTask
    /\ sup_pc = "down"
    /\ runs = 0
    /\ filenames = {}
    /\ task_error_files = EmptyByTask
    /\ completed = {}
    /\ clean_i = 0
    /\ clean_todo = {}
    /\ rec_todo = {}
    /\ rec_cur = NoName
    /\ rt_pc = [t \in TaskNames |-> "dead"]
    /\ rt_processed = EmptyByTask
    /\ rt_batch = EmptyByTask
    /\ rt_cur = [t \in TaskNames |-> NoName]
    /\ rt_tmp = [t \in TaskNames |-> NoName]
    /\ produced = ZeroProduced
    /\ settled = EmptyByTask
    /\ aw_dir \in [AwFiles -> {Absent, Prior}]
    /\ \A n \in MkstempNames : aw_dir[n] = Absent
    /\ aw_pc = "idle"
    /\ aw_target = NoName
    /\ aw_tmp = NoName
    /\ aw_written = 0
    /\ aw_calls = 0
    /\ aw_before = Absent
    /\ ExtIdle

\* a plausible slip: the callback is handed the target itself
YieldedPathIsTarget(filepath, temp_path) == filepath

\* line 278: yield temp_path
YieldedPath(filepath, temp_path) == temp_path

\* a plausible slip: the rename sits in a finally clause
AfterExceptionRenames(dir, filepath, temp_path) ==
    [dir EXCEPT ![filepath] = dir[temp_path], ![temp_path] = Absent]

\* lines 279-281: temp_path.unlink(missing_ok=True)
AfterException(dir, filepath, temp_path) ==
    [dir EXCEPT ![temp_path] = Absent]

\* line 283: temp_path.replace(filepath)
AfterReturn(dir, filepath, temp_path) ==
    [dir EXCEPT ![filepath] = dir[temp_path], ![temp_path] = Absent]

\* lines 270-278: mkstemp in the directory of filepath, close, yield
AwEnter(filepath) ==
    /\ aw_pc = "idle"
    /\ aw_calls < MaxCalls
    /\ \E tmp \in {n \in MkstempNames : aw_dir[n] = Absent} :
          /\ aw_tmp' = tmp
          /\ aw_dir' = [aw_dir EXCEPT ![tmp] = <<aw_calls + 1, 0>>]
    /\ aw_target' = filepath
    /\ aw_before' = aw_dir[filepath]
    /\ aw_written' = 0
    /\ aw_calls' = aw_calls + 1
    /\ aw_pc' = "callback"
    /\ UNCHANGED pipevars

\* the callback writes one more chunk to the path it was handed
AwWrite ==
    /\ aw_pc = "callback"
    /\ aw_written < Chunks
    /\ aw_written' = aw_written + 1
    /\ aw_dir' = [aw_dir EXCEPT ![YieldedPath(aw_target, aw_tmp)] =
                      <<aw_calls, aw_written + 1>>]
    /\ UNCHANGED <<pipevars, aw_pc, aw_target, aw_tmp, aw_calls, aw_before>>

\* the callback returns after its last chunk; the else clause renames
AwReturn ==
    /\ aw_pc = "callback"
    /\ aw_written = Chunks
    /\ aw_dir' = AfterReturn(aw_dir, aw_target, aw_tmp)
    /\ aw_pc' = "done"
    /\ UNCHANGED <<pipevars, aw_target, aw_tmp, aw_written, aw_calls, aw_before>>

\* the callback raises an Exception, after any number of chunks
AwRaise ==
    /\ aw_pc = "callback"
    /\ aw_dir' = AfterException(aw_dir, aw_target, aw_tmp)
    /\ aw_pc' = "raised"
    /\ UNCHANGED <<pipevars, aw_target, aw_tmp, aw_written, aw_calls, aw_before>>

\* the writer is killed in the callback: nothing of atomic_write runs any more
AwKill ==
    /\ aw_pc = "callback"
    /\ aw_pc' = "killed"
    /\ UNCHANGED <<pipevars, aw_dir, aw_target, aw_tmp, aw_written, aw_calls, aw_before>>

\* the caller has the result (or the exception) and goes on
AwNext ==
    /\ aw_pc \in {"done", "raised"}
    /\ aw_pc' = "idle"
    /\ aw_target' = NoName
    /\ aw_tmp' = NoName
    /\ aw_written' = 0
    /\ aw_before' = Absent
    /\ UNCHANGED <<pipevars, aw_dir, aw_calls>>

NextAtomic ==
    \/ \E filepath \in AwTargets : AwEnter(filepath)
    \/ AwWrite
    \/ AwReturn
    \/ AwRaise
    \/ AwKill
    \/ AwNext

SpecAtomic == InitAtomic /\ [][NextAtomic]_vars

\* C8: atomic write: a target is absent or holds complete content, in every
\* state, that of a killed writer included; and a target changes only in the
\* step that follows the callback's return, to that callback's complete content.
C8_AtomicWrite ==
    /\ [](\A p \in AwTargets : aw_dir[p] = Absent \/ Complete(aw_dir[p]))
    /\ [][\A p \in AwTargets :
             aw_dir'[p] # aw_dir[p] =>
                /\ p = aw_target
                /\ aw_pc = "callback" /\ aw_written = Chunks /\ aw_pc' = "done"
                /\ aw_dir'[p] = <<aw_calls, Chunks>>]_vars

\* the writer was killed after a partial write over an existing target
C8_Witness ==
    /\ aw_pc = "killed"
    /\ aw_written \in 1..(Chunks - 1)
    /\ aw_before = Prior
    /\ aw_dir[aw_target] = Prior

\* C9: atomic write error path: when the callback raises, the temporary file
\* is gone, the caller gets the exception and the target is as the call found it.
C9_ErrorPath ==
    aw_pc = "raised" =>
        /\ aw_dir[aw_tmp] = Absent
        /\ aw_dir[aw_target] = aw_before

\* the callback raised after a partial write, over an existing target and over none
C9_Witness ==
    /\ aw_pc = "raised"
    /\ aw_written > 0
    /\ aw_before = Prior
    /\ \E p \in AwTargets : aw_dir[p] = Absent
Init == InitPipeline /\ AwIdle /\ ExtIdle

\* Pipeline.__init__ followed by run() up to the end of _start_tasks
SupStart ==
    /\ sup_pc = "down"
    /\ runs < MaxRuns
    /\ LET inp == InputAfterDelete(delete_input, input_dir, finished)
           broken == Broken(symlinks, inp)
           sym == symlinks \ broken
           dirs == [t \in TaskNames |->
                      IF t \in Names
                      THEN SweptTaskDir(Cfg(t), taskdir[t], broken, RootInputExt(tasks))
                      ELSE taskdir[t]]
       IN  /\ input_dir' = inp
           /\ symlinks' = sym
           /\ strays' = {}
           /\ swept' = [broken |-> broken, strays |-> strays, kept |-> dirs]
           /\ taskdir' = dirs
           /\ filenames' = KnownFilenames(sym, finished)
    /\ task_error_files' = EmptyByTask
    /\ rt_pc' = [t \in TaskNames |-> IF t \in Names THEN "start" ELSE "dead"]
    /\ rt_processed' = EmptyByTask
    /\ rt_batch' = EmptyByTask
    /\ rt_cur' = [t \in TaskNames |-> NoName]
    /\ rt_tmp' = [t \in TaskNames |-> NoName]
    /\ produced' = ZeroProduced
    /\ settled' = EmptyByTask
    /\ runs' = runs + 1
    /\ sup_pc' = "stage"
    /\ UNCHANGED <<tasks, delete_input, awvars, pidvars, lockvars, lifevars, graphvars,
                   stagevars, ctxvars, runtimevars, killed, starts, finished, visible,
                   completed, clean_i, clean_todo, rec_todo, rec_cur>>

----------------------------------------------------------------------------
(* Pipeline.run: one tick is stage, report, harvest; every file system     *)
(* operation of the harvest is a step of its own, the runtimes being other  *)
(* processes that run between any two of them.                              *)

\* Pipeline._stage_new_files
NewFiles(inp, root_ext, known) ==
    {n \in inp : EndsWith(n, root_ext) /\ n \notin known}

SupStage ==
    /\ sup_pc = "stage"
    /\ LET new == NewFiles(input_dir, RootInputExt(tasks), filenames)
       IN  /\ symlinks' = symlinks \cup new
           /\ filenames' = filenames \cup new
    /\ sup_pc' = "report"
    /\ UNCHANGED <<fixedvars, input_dir, finished, taskdir, visible, runs,
                   task_error_files, completed, clean_i, clean_todo, rec_todo, rec_cur,
                   rtvars, histvars>>

\* Pipeline._report_failed_files
SupReport ==
    /\ sup_pc = "report"
    /\ task_error_files' =
          [t \in TaskNames |->
              task_error_files[t] \cup {n \in taskdir[t] : EndsWith(n, ErrExt)}]
    /\ sup_pc' = "harvest"
    /\ UNCHANGED <<fixedvars, fsvars, runs, filenames, completed,
                   clean_i, clean_todo, rec_todo, rec_cur, rtvars, histvars>>

\* a plausible slip: the outputs are looked up by the task's input_ext
CompletedIdsOfByInputExt(task, dir) ==
    {RemoveSuffix(n, task.input_ext) : n \in {m \in dir : EndsWith(m, task.input_ext)}}

\* the file ids one task has completed: names ending with its output_ext
CompletedIdsOf(task, dir) ==
    {RemoveSuffix(n, task.output_ext) : n \in {m \in dir : EndsWith(m, task.output_ext)}}

\* set.intersection over the terminal tasks
CompletedFileIds(cfg, dirs) ==
    LET terminal == TerminalTasks(cfg)
        universe == UNION {CompletedIdsOf(TaskByName(cfg, t), dirs[t]) : t \in terminal}
    IN  {id \in universe :
            \A t \in terminal : id \in CompletedIdsOf(TaskByName(cfg, t), dirs[t])}

\* Pipeline._process_completed_files, lines 237-245
SupHarvest ==
    /\ sup_pc = "harvest"
    /\ LET ids == CompletedFileIds(tasks, taskdir)
       IN  /\ completed' = ids
           /\ clean_i' = IF ids = {} THEN 0 ELSE 1
           /\ clean_todo' = ids
           /\ sup_pc' = IF ids = {} THEN "stage" ELSE "clean"
    /\ UNCHANGED <<fixedvars, fsvars, runs, filenames, task_error_files,
                   rec_todo, rec_cur, rtvars, histvars>>

\* lines 248-254: file.replace(...) or file.unlink() of one task's output of
\* one file id; either raises FileNotFoundError when the file is missing
SupClean ==
    /\ sup_pc = "clean"
    /\ \E id \in clean_todo :
          LET task == tasks[clean_i]
              file == id \o task.output_ext
              last == clean_todo = {id}
          IN  IF file \notin taskdir[task.name]
              THEN /\ sup_pc' = "failed"
                   /\ UNCHANGED <<taskdir, visible, clean_i, clean_todo, rec_todo>>
              ELSE /\ taskdir' = [taskdir EXCEPT ![task.name] = @ \ {file}]
                   /\ visible' = IF task.keep_output
                                 THEN [visible EXCEPT ![task.name] = @ \cup {file}]
                                 ELSE visible
                   /\ IF ~last
                      THEN /\ clean_todo' = clean_todo \ {id}
                           /\ UNCHANGED <<clean_i, rec_todo, sup_pc>>
                      ELSE IF clean_i < Len(tasks)
                      THEN /\ clean_i' = clean_i + 1
                           /\ clean_todo' = completed
                           /\ UNCHANGED <<rec_todo, sup_pc>>
                      ELSE /\ clean_i' = 0
                           /\ clean_todo' = {}
                           /\ rec_todo' = completed
                           /\ sup_pc' = "unlink"
    /\ UNCHANGED <<fixedvars, input_dir, symlinks, finished, runs, filenames,
                   task_error_files, completed, rec_cur, rtvars, histvars>>

\* lines 259-260: unlink the symlink of one completed file id
SupUnlink ==
    /\ sup_pc = "unlink"
    /\ \E id \in rec_todo :
          LET file == id \o RootInputExt(tasks)
          IN  IF file \notin symlinks
              THEN /\ sup_pc' = "failed"
                   /\ UNCHANGED <<symlinks, rec_cur>>
              ELSE /\ symlinks' = symlinks \ {file}
                   /\ rec_cur' = file
                   /\ sup_pc' = IF delete_input THEN "source" ELSE "touch"
    /\ UNCHANGED <<fixedvars, input_dir, finished, taskdir, visible, runs,
                   filenames, task_error_files, completed, clean_i, clean_todo, rec_todo,
                   rtvars, histvars>>

\* lines 261-263: source_file.unlink(missing_ok=True)
SupDeleteSource ==
    /\ sup_pc = "source"
    /\ input_dir' = input_dir \ {rec_cur}
    /\ sup_pc' = "touch"
    /\ UNCHANGED <<fixedvars, symlinks, finished, taskdir, visible, runs,
                   filenames, task_error_files, completed, clean_i, clean_todo, rec_todo,
                   rec_cur, rtvars, histvars>>

\* lines 264-265: done_file.touch()
SupTouch ==
    /\ sup_pc = "touch"
    /\ finished' = finished \cup {rec_cur}
    /\ LET rest == rec_todo \ {RemoveSuffix(rec_cur, RootInputExt(tasks))}
       IN  /\ rec_todo' = rest
           /\ sup_pc' = IF rest = {} THEN "stage" ELSE "unlink"
           /\ completed' = IF rest = {} THEN {} ELSE completed
    /\ rec_cur' = NoName
    /\ UNCHANGED <<fixedvars, input_dir, symlinks, taskdir, visible, runs,
                   filenames, task_error_files, clean_i, clean_todo, rtvars, histvars>>

\* run()'s finally block after an exception left the loop: the local
\* subprocesses are terminated, then the exception ends the supervisor.
\* LocalTask installs no handler, so SIGTERM ends the runtime where it is.
SupAbort ==
    /\ sup_pc = "failed"
    /\ sup_pc' = "down"
    /\ rt_pc' = [t \in TaskNames |-> "dead"]
    /\ rt_processed' = EmptyByTask
    /\ rt_batch' = EmptyByTask
    /\ rt_cur' = [t \in TaskNames |-> NoName]
    /\ rt_tmp' = [t \in TaskNames |-> NoName]
    /\ filenames' = {}
    /\ task_error_files' = EmptyByTask
    /\ completed' = {}
    /\ clean_i' = 0
    /\ clean_todo' = {}
    /\ rec_todo' = {}
    /\ rec_cur' = NoName
    /\ UNCHANGED <<fixedvars, fsvars, runs, histvars>>

\* the machine goes down: supervisor and runtimes stop wherever they are
Crash ==
    /\ sup_pc \notin {"down", "failed"}
    /\ runs < MaxRuns
    /\ sup_pc' = "down"
    /\ rt_pc' = [t \in TaskNames |-> "dead"]
    /\ rt_processed' = EmptyByTask
    /\ rt_batch' = EmptyByTask
    /\ rt_cur' = [t \in TaskNames |-> NoName]
    /\ rt_tmp' = [t \in TaskNames |-> NoName]
    /\ filenames' = {}
    /\ task_error_files' = EmptyByTask
    /\ completed' = {}
    /\ clean_i' = 0
    /\ clean_todo' = {}
    /\ rec_todo' = {}
    /\ rec_cur' = NoName
    /\ UNCHANGED <<fixedvars, fsvars, runs, histvars>>

----------------------------------------------------------------------------
(* LocalTask.start *)

\* line 64
OutputFileName(input_name, input_ext, output_ext) ==
    RemoveSuffix(input_name, input_ext) \o output_ext

\* a plausible slip: the error report goes to the output path
ErrorFileNameIsOutput(output_name, output_ext) == output_name

\* line 40
ErrorFileName(output_name, output_ext) ==
    RemoveSuffix(output_name, output_ext) \o ErrExt

FileId(t) == RemoveSuffix(rt_cur[t], Cfg(t).input_ext)

\* after a file: the next file of the batch, or sleep and scan again
AfterFile(t) == IF rt_batch[t] = {} THEN "scan" ELSE "proc"

\* lines 46-51: _remove_temporary_files, setup, freeze
RtStart(t) ==
    /\ rt_pc[t] = "start"
    /\ taskdir' = [taskdir EXCEPT ![t] = RemoveTemporaryFiles(@)]
    /\ rt_pc' = [rt_pc EXCEPT ![t] = "scan"]
    /\ UNCHANGED <<fixedvars, input_dir, symlinks, finished, visible,
                   supvars, rt_processed, rt_batch, rt_cur, rt_tmp, histvars>>

\* lines 56-61, first half of _get_unprocessed_files: the output directory is listed
RtScanOutput(t) ==
    /\ rt_pc[t] = "scan"
    /\ rt_processed' = [rt_processed EXCEPT ![t] = ProcessedIds(taskdir[t], Cfg(t).output_ext)]
    /\ rt_pc' = [rt_pc EXCEPT ![t] = "scan_in"]
    /\ UNCHANGED <<fixedvars, fsvars, supvars, rt_batch, rt_cur, rt_tmp, histvars>>

\* second half: the input directory is listed; an empty result leads to sleep
RtScanInput(t) ==
    /\ rt_pc[t] = "scan_in"
    /\ LET files == UnprocessedFiles(InputFiles(t), Cfg(t).input_ext, rt_processed[t])
       IN  /\ rt_batch' = [rt_batch EXCEPT ![t] = files]
           /\ rt_pc' = [rt_pc EXCEPT ![t] = IF files = {} THEN "scan" ELSE "proc"]
    /\ rt_processed' = [rt_processed EXCEPT ![t] = {}]
    /\ UNCHANGED <<fixedvars, fsvars, supvars, rt_cur, rt_tmp, histvars>>

\* lines 63-66 and 37: the next file of the batch; atomic_write makes the
\* temporary file and the callback is entered
RtBegin(t) ==
    /\ rt_pc[t] = "proc"
    /\ \E f \in rt_batch[t] : \E tmp \in Mkstemp(taskdir[t]) :
          /\ rt_batch' = [rt_batch EXCEPT ![t] = @ \ {f}]
          /\ rt_cur' = [rt_cur EXCEPT ![t] = f]
          /\ rt_tmp' = [rt_tmp EXCEPT ![t] = tmp]
          /\ taskdir' = [taskdir EXCEPT ![t] = @ \cup {tmp}]
    /\ rt_pc' = [rt_pc EXCEPT ![t] = "run"]
    /\ UNCHANGED <<fixedvars, input_dir, symlinks, finished, visible,
                   supvars, rt_processed, histvars>>

\* the callback returns: atomic_write renames the temporary file to the output
RtReturn(t) ==
    /\ rt_pc[t] = "run"
    /\ LET out == OutputFileName(rt_cur[t], Cfg(t).input_ext, Cfg(t).output_ext)
       IN  taskdir' = [taskdir EXCEPT ![t] = (@ \ {rt_tmp[t]}) \cup {out}]
    /\ produced' = [produced EXCEPT ![t][FileId(t)] =
                        IF @ < MaxProduced THEN @ + 1 ELSE @]
    /\ settled' = [settled EXCEPT ![t] = @ \cup {FileId(t)}]
    /\ rt_cur' = [rt_cur EXCEPT ![t] = NoName]
    /\ rt_tmp' = [rt_tmp EXCEPT ![t] = NoName]
    /\ rt_pc' = [rt_pc EXCEPT ![t] = AfterFile(t)]
    /\ UNCHANGED <<fixedvars, input_dir, symlinks, finished, visible,
                   supvars, rt_processed, rt_batch>>

\* the callback raises: atomic_write unlinks the temporary file and re-raises,
\* task() catches and opens an atomic_write of the .err file (lines 39-42)
RtRaise(t) ==
    /\ rt_pc[t] = "run"
    /\ \E tmp \in Mkstemp(taskdir[t] \ {rt_tmp[t]}) :
          /\ taskdir' = [taskdir EXCEPT ![t] = (@ \ {rt_tmp[t]}) \cup {tmp}]
          /\ rt_tmp' = [rt_tmp EXCEPT ![t] = tmp]
    /\ rt_pc' = [rt_pc EXCEPT ![t] = "err"]
    /\ UNCHANGED <<fixedvars, input_dir, symlinks, finished, visible,
                   supvars, rt_processed, rt_batch, rt_cur, histvars>>

\* lines 43-44 and the rename that ends the atomic_write of the .err file
RtErrCommit(t) ==
    /\ rt_pc[t] = "err"
    /\ LET out == OutputFileName(rt_cur[t], Cfg(t).input_ext, Cfg(t).output_ext)
           err == ErrorFileName(out, Cfg(t).output_ext)
       IN  taskdir' = [taskdir EXCEPT ![t] = (@ \ {rt_tmp[t]}) \cup {err}]
    /\ settled' = [settled EXCEPT ![t] = @ \cup {FileId(t)}]
    /\ rt_cur' = [rt_cur EXCEPT ![t] = NoName]
    /\ rt_tmp' = [rt_tmp EXCEPT ![t] = NoName]
    /\ rt_pc' = [rt_pc EXCEPT ![t] = AfterFile(t)]
    /\ UNCHANGED <<fixedvars, input_dir, symlinks, finished, visible,
                   supvars, rt_processed, rt_batch, produced>>

----------------------------------------------------------------------------

Next ==
    \/ SupStart
    \/ SupStage
    \/ SupReport
    \/ SupHarvest
    \/ SupClean
    \/ SupUnlink
    \/ SupDeleteSource
    \/ SupTouch
    \/ SupAbort
    \/ Crash
    \/ \E t \in Names : RtStart(t)
    \/ \E t \in Names : RtScanOutput(t)
    \/ \E t \in Names : RtScanInput(t)
    \/ \E t \in Names : RtBegin(t)
    \/ \E t \in Names : RtReturn(t)
    \/ \E t \in Names : RtRaise(t)
    \/ \E t \in Names : RtErrCommit(t)

Spec == Init /\ [][Next]_vars

TypeOK ==
    /\ sup_pc \in {"down", "stage", "report", "harvest", "clean", "unlink",
                   "source", "touch", "failed"}
    /\ \A t \in TaskNames :
          /\ rt_pc[t] \in {"dead", "start", "scan", "scan_in", "proc", "run", "err"}
          /\ \A s \in Stems : produced[t][s] \in 0..MaxProduced
          /\ settled[t] \subseteq Stems
    /\ runs \in 0..MaxRuns

----------------------------------------------------------------------------
(* Properties of the workspace *)

RootExt == RootInputExt(tasks)
StemOf(n) == RemoveSuffix(n, RootExt)

\* a task that no other task depends on
IsTerminal(t) == \A u \in Names : Cfg(u).depends_on # t

\* C1: at-most-once completion: once .finished/<stem> exists, no internal
\* task directory holds <stem><output_ext> of that stem.
C1_NoOutputAfterFinished ==
    \A n \in finished : \A t \in Names : OutputName(t, StemOf(n)) \notin taskdir[t]

\* C2: at-most-once per file: during one supervisor run each runtime
\* writes the success output of a stem at most once.
C2_OutputAtMostOncePerRun ==
    \A t \in Names : \A s \in Stems : produced[t][s] <= 1

\* C3: marker ordering: no state holds both .symlinks/<name> and
\* .finished/<name>, and the step that creates the marker finds the symlink
\* already removed.
C3_MarkerAfterSymlinkRemoval ==
    /\ [](symlinks \cap finished = {})
    /\ [][\A n \in finished' \ finished : n \notin symlinks /\ n \notin symlinks']_vars

C3_Witness ==
    /\ runs > 1
    /\ finished # {}
    /\ sup_pc = "touch"

\* C4: harvest gate: the harvest's set of completed ids holds only stems whose
\* output every terminal task had when the set was computed, and a marker is
\* created only for a stem of that set.
C4_HarvestGate ==
    [][/\ (sup_pc = "harvest" =>
             \A id \in completed' : \A t \in Names :
                 IsTerminal(t) => OutputName(t, id) \in taskdir[t])
       /\ \A n \in finished' \ finished : StemOf(n) \in completed]_vars

C4_Witness ==
    /\ Cardinality({t \in Names : IsTerminal(t)}) > 1
    /\ finished # {}

\* C5: failed files are not auto-finished: while some task holds <stem>.err
\* and no <stem><output_ext>, no step creates .finished/<stem> or removes
\* .symlinks/<stem>.
HasFailed(id) ==
    \E t \in Names : ErrName(id) \in taskdir[t] /\ OutputName(t, id) \notin taskdir[t]

C5_FailedNotFinished ==
    [][\A id \in Stems :
          HasFailed(id) =>
             /\ (id \o RootExt \in finished' => id \o RootExt \in finished)
             /\ (id \o RootExt \in symlinks => id \o RootExt \in symlinks')]_vars

\* C6: no automatic retry: a runtime never has the callback running for a stem
\* for which it already had an output or a .err during this run.
C6_NoRetry ==
    \A t \in Names : rt_pc[t] = "run" => FileId(t) \notin settled[t]

\* C7: per-file failure isolation: the step in which the callback raises
\* creates no output and leaves the rest of the batch; the step that writes
\* <stem>.err creates no output either and takes the runtime to the next file
\* of the batch, or to the next scan.
OutputsIn(t, dir) == {n \in dir : EndsWith(n, Cfg(t).output_ext)}

C7_FailureIsolation ==
    [][\A t \in Names :
          /\ (rt_pc[t] = "run" /\ rt_pc'[t] = "err" =>
                /\ OutputsIn(t, taskdir'[t]) = OutputsIn(t, taskdir[t])
                /\ rt_batch'[t] = rt_batch[t])
          /\ (rt_pc[t] = "err" /\ rt_pc'[t] \notin {"err", "dead"} =>
                /\ ErrName(FileId(t)) \in taskdir'[t]
                /\ OutputsIn(t, taskdir'[t]) = OutputsIn(t, taskdir[t])
                /\ rt_batch'[t] = rt_batch[t]
                /\ rt_pc'[t] = IF rt_batch[t] # {} THEN "proc" ELSE "scan")]_vars

C7_Witness ==
    \E t \in Names :
        /\ rt_pc[t] = "run"
        /\ \E id \in settled[t] :
              /\ id # FileId(t)
              /\ ErrName(id) \in taskdir[t]
              /\ OutputName(t, id) \notin taskdir[t]
        /\ rt_batch[t] = {}

\* C10: in-flight temporaries are invisible: no scan lists a temporary file
\* as an input, no callback is given one, and neither a scan's processed ids
\* nor a harvest's completed ids come from one.
IdsFromTemporaries(t) ==
    ProcessedIds(MkstempNames, Cfg(t).output_ext) \cup CompletedIdsOf(Cfg(t), MkstempNames)

C10_TemporariesInvisible ==
    \A t \in Names :
        /\ rt_batch[t] \cap MkstempNames = {}
        /\ rt_cur[t] \notin MkstempNames
        /\ rt_processed[t] \cap IdsFromTemporaries(t) = {}
        /\ completed \cap IdsFromTemporaries(t) = {}
        /\ \A n \in taskdir[t] \cap MkstempNames : Suffix(n) = <<>>

\* a child lists its parent's directory while the parent's callback is writing
C10_Witness ==
    \E t \in Names : \E u \in Names :
        /\ Cfg(t).depends_on = u
        /\ rt_pc[u] = "run"
        /\ rt_tmp[u] \in taskdir[u]
        /\ OutputsIn(u, taskdir[u]) # {}
        /\ rt_pc[t] = "scan_in"

----------------------------------------------------------------------------
(* check_and_cleanup_stale_pid, called by one caller on any run.pid and any  *)
(* process table.                                                            *)

\* what the main loop, the runtimes and atomic_write are made of
corevars == <<tasks, delete_input, fsvars, supvars, rtvars, histvars, awvars, compvars>>
\* the same and the supervisor's life cycle: what the lock steps leave alone
lockfixed == <<corevars, lifevars, graphvars>>

InitPid ==
    /\ PipeIdle /\ AwIdle /\ LockIdle /\ LifeIdle /\ GraphIdle /\ CompIdle
    /\ pf_exists \in BOOLEAN
    /\ pf_content \in PidTexts
    /\ ~pf_exists => pf_content = <<>>
    /\ pf_procs \in [OsPids -> ProbeResults]
    /\ pf_pc = "idle"
    /\ pf_ret = FALSE
    /\ pf_before = [exists |-> FALSE, content |-> <<>>]

\* one call of check_and_cleanup_stale_pid(pid_file)
PfCall ==
    /\ pf_pc = "idle"
    /\ LET r == CheckAndCleanupStalePid(pf_exists, pf_content, pf_procs)
       IN  /\ pf_ret' = r.ret
           /\ pf_exists' = r.exists
           /\ pf_content' = r.content
    /\ pf_before' = [exists |-> pf_exists, content |-> pf_content]
    /\ pf_pc' = "returned"
    /\ UNCHANGED <<corevars, lockvars, lifevars, graphvars, pf_procs>>

\* before the next call the file and the process table may be anything
PfNext ==
    /\ pf_pc = "returned"
    /\ pf_exists' \in BOOLEAN
    /\ pf_content' \in PidTexts
    /\ ~pf_exists' => pf_content' = <<>>
    /\ pf_procs' \in [OsPids -> ProbeResults]
    /\ pf_pc' = "idle"
    /\ pf_ret' = FALSE
    /\ pf_before' = [exists |-> FALSE, content |-> <<>>]
    /\ UNCHANGED <<corevars, lockvars, lifevars, graphvars>>

NextPid == PfCall \/ PfNext

SpecPid == InitPid /\ [][NextPid]_vars

\* C12: lock check: check_and_cleanup_stale_pid returns true iff run.pid
\* exists, its stripped text is an integer and the probe of that pid finds a
\* process (a permission-denied probe included), and then the file is left as
\* it was; when the process is gone the file is removed and the result is
\* false; when the file is missing or is not an integer the result is false
\* and nothing changes.
C12_LockCheck ==
    pf_pc = "returned" =>
        LET parses == pf_before.exists /\ IsInt(Strip(pf_before.content))
            pid == IntOf(Strip(pf_before.content))
            live == parses /\ Probe(pf_procs, pid) # "gone"
            same == pf_exists = pf_before.exists /\ pf_content = pf_before.content
        IN  /\ pf_ret = live
            /\ live => same
            /\ (parses /\ ~live) => ~pf_exists
            /\ ~parses => same

\* a stale record of a dead process was removed, and one of a process that
\* may not be signalled was kept
C12_Witness ==
    /\ pf_pc = "returned"
    /\ pf_before.exists
    /\ \/ ~pf_ret /\ ~pf_exists /\ Strip(pf_before.content) = <<"1", "2">>
       \/ pf_ret /\ pf_exists /\ Probe(pf_procs, 1) = "denied"
                 /\ Strip(pf_content) = <<"1">> /\ Len(pf_content) = 2

----------------------------------------------------------------------------
(* Two invocations of `tigerflow run` on one output directory.  Each step    *)
(* is one access to run.pid or to the process table.                         *)

\* run.pid as a crashed supervisor left it, or no run.pid
StaleText == <<"2">>

InitLock ==
    /\ PipeIdle /\ AwIdle /\ LifeIdle /\ GraphIdle /\ CompIdle
    /\ LockIdle
    /\ pf_exists \in BOOLEAN
    /\ pf_content = IF pf_exists THEN StaleText ELSE <<>>
    /\ pf_procs = [p \in OsPids |-> "gone"]
    /\ pf_pc = "idle"
    /\ pf_ret = FALSE
    /\ pf_before = [exists |-> FALSE, content |-> <<>>]

\* the command is invoked: a process with pid r exists from now on
LkInvoke(r) ==
    /\ lk_pc[r] = "none"
    /\ lk_pc' = [lk_pc EXCEPT ![r] = "read"]
    /\ pf_procs' = [pf_procs EXCEPT ![r] = "running"]
    /\ UNCHANGED <<lockfixed, pf_exists, pf_content, pf_pc, pf_ret, pf_before,
                   lk_pid, lk_exit>>

\* check_and_cleanup_stale_pid, line 250: read_pid_file
LkRead(r) ==
    /\ lk_pc[r] = "read"
    /\ LET pid == ReadPidFile(pf_exists, pf_content)
       IN  /\ lk_pid' = [lk_pid EXCEPT ![r] = pid]
           /\ lk_pc' = [lk_pc EXCEPT ![r] = IF pid = NoPid THEN "write" ELSE "probe"]
    /\ UNCHANGED <<lockfixed, pidvars, lk_exit>>

\* check_and_cleanup_stale_pid, line 254: is_process_running
LkProbe(r) ==
    /\ lk_pc[r] = "probe"
    /\ lk_pc' = [lk_pc EXCEPT ![r] =
                    IF IsProcessRunning(pf_procs, lk_pid[r]) THEN "refuse" ELSE "unlink"]
    /\ UNCHANGED <<lockfixed, pidvars, lk_pid, lk_exit>>

\* check_and_cleanup_stale_pid, line 258: pid_file.unlink(missing_ok=True)
LkUnlink(r) ==
    /\ lk_pc[r] = "unlink"
    /\ pf_exists' = FALSE
    /\ pf_content' = <<>>
    /\ lk_pc' = [lk_pc EXCEPT ![r] = "write"]
    /\ UNCHANGED <<lockfixed, pf_procs, pf_pc, pf_ret, pf_before, lk_pid, lk_exit>>

\* run, lines 68-70: the message and typer.Exit(1); when run.pid can no longer
\* be read as an integer the read raises and the process ends with code 1 too
LkRefuse(r) ==
    /\ lk_pc[r] = "refuse"
    /\ lk_pc' = [lk_pc EXCEPT ![r] = "exited"]
    /\ lk_exit' = [lk_exit EXCEPT ![r] = 1]
    /\ pf_procs' = [pf_procs EXCEPT ![r] = "gone"]
    /\ UNCHANGED <<lockfixed, pf_exists, pf_content, pf_pc, pf_ret, pf_before, lk_pid>>

\* the caller that saw false writes its own pid into run.pid and proceeds
LkWrite(r) ==
    /\ lk_pc[r] = "write"
    /\ pf_exists' = TRUE
    /\ pf_content' = StrOf(r)
    /\ lk_pc' = [lk_pc EXCEPT ![r] = "running"]
    /\ UNCHANGED <<lockfixed, pf_procs, pf_pc, pf_ret, pf_before, lk_pid, lk_exit>>

\* the supervisor leaves through the shutdown sequence: the record is removed
LkStop(r) ==
    /\ lk_pc[r] = "running"
    /\ pf_exists' = FALSE
    /\ pf_content' = <<>>
    /\ pf_procs' = [pf_procs EXCEPT ![r] = "gone"]
    /\ lk_pc' = [lk_pc EXCEPT ![r] = "exited"]
    /\ lk_exit' = [lk_exit EXCEPT ![r] = 0]
    /\ UNCHANGED <<lockfixed, pf_pc, pf_ret, pf_before, lk_pid>>

NextLock ==
    \E r \in Runners :
        \/ LkInvoke(r)
        \/ LkRead(r)
        \/ LkProbe(r)
        \/ LkUnlink(r)
        \/ LkRefuse(r)
        \/ LkWrite(r)
        \/ LkStop(r)

SpecLock == InitLock /\ [][NextLock]_vars

\* C11: single instance: of two concurrent run invocations on one output
\* directory at most one is ever running the pipeline, whatever the order of
\* their reads, probes and writes of run.pid.
C11_SingleInstance == Cardinality({r \in Runners : lk_pc[r] = "running"}) <= 1

----------------------------------------------------------------------------
(* One supervisor from `tigerflow run` to its exit.                          *)

\* what no step of the supervisor's life cycle changes
lifefixed == <<corevars, lockvars, graphvars, pf_pc, pf_ret, pf_before>>

\* run.pid is missing, or names a pid that may or may not have a process
InitLife ==
    /\ PipeIdle /\ AwIdle /\ LockIdle /\ LifeIdle /\ GraphIdle /\ CompIdle
    /\ pf_exists \in BOOLEAN
    /\ pf_content \in (IF pf_exists THEN {<<"2">>, <<"1", "2">>} ELSE {<<>>})
    /\ pf_procs \in {[p \in OsPids |-> IF p = 12 THEN x ELSE "gone"] :
                        x \in {"running", "gone"}}
    /\ pf_pc = "idle"
    /\ pf_ret = FALSE
    /\ pf_before = [exists |-> FALSE, content |-> <<>>]

\* a plausible slip: the handler sets the event and forgets the number
SignalHandlerNoSignum(signum, received, shutdown, pc) ==
    [signal |-> received, shutdown |-> TRUE, pc |-> pc]

\* a plausible slip: the handler runs the teardown itself
SignalHandlerTearsDown(signum, received, shutdown, pc) ==
    [signal |-> signum, shutdown |-> TRUE,
     pc |-> IF pc \in {"poll", "unrecord", "exit"} THEN "cancel" ELSE pc]

\* Pipeline._signal_handler: it stores the number and sets the event, and the
\* interrupted code goes on where it was
SignalHandler(signum, received, shutdown, pc) ==
    [signal |-> signum, shutdown |-> TRUE, pc |-> pc]

\* a plausible slip: only the local subprocesses are cancelled
CancelTargetsLocalOnly(status, started) ==
    {t \in started : IsAlive(status[t]) /\ LifeKind(t) = "local"}

\* run, lines 153-160: the started tasks whose recorded status is alive
CancelTargets(status, started) == {t \in started : IsAlive(status[t])}

\* process.terminate() for a local task, scancel for a Slurm task
CancelKind(t) == IF LifeKind(t) = "local" THEN "terminate" ELSE "scancel"

\* a plausible slip: _start_tasks is called in the loop
LoopEntryStartsTasks == "start"

\* run, lines 145-146: the first call of the loop body is _check_task_status
LoopEntry == "check"

\* run, lines 165-166, and the interpreter's exit code for an uncaught exception
ExitCode(received, raised) ==
    IF received # NoSignal THEN 128 + received ELSE IF raised THEN 1 ELSE 0

Started == {t \in LifeNames : lf_starts[t] > 0}
Refresh == [t \in LifeNames |-> StatusOf(lf_proc[t])]
Entered(n) == IF n < 2 THEN n + 1 ELSE 2

\* cli run, lines 67-70: the lock check; a live record ends the command
LfLockCheck ==
    /\ lf_pc = "none"
    /\ LET r == CheckAndCleanupStalePid(pf_exists, pf_content, pf_procs)
       IN  /\ pf_exists' = r.exists
           /\ pf_content' = r.content
           /\ lf_pc' = IF r.ret THEN "refused" ELSE "record"
           /\ lf_exit' = IF r.ret THEN 1 ELSE NoExit
           /\ pf_procs' = IF r.ret THEN pf_procs
                          ELSE [pf_procs EXCEPT ![SupPid] = "running"]
    /\ UNCHANGED <<lifefixed, lf_i, lf_shutdown, lf_signal, lf_status, lf_proc,
                   lf_term, lf_cancels, lf_starts, lf_teardowns, lf_delivered,
                   lf_raised, lf_cause>>

\* startup: the supervisor writes its pid into run.pid; run, lines 138-139,
\* registers the signal handlers
LfRecord ==
    /\ lf_pc = "record"
    /\ pf_exists' = TRUE
    /\ pf_content' = StrOf(SupPid)
    /\ lf_pc' = "start"
    /\ UNCHANGED <<lifefixed, pf_procs, lf_i, lf_shutdown, lf_signal, lf_status,
                   lf_proc, lf_term, lf_cancels, lf_starts, lf_teardowns,
                   lf_delivered, lf_raised, lf_cause, lf_exit>>

\* _start_tasks: one iteration, Popen or submit_to_slurm
LfStartTask ==
    /\ lf_pc = "start"
    /\ lf_i <= Len(LifeTasks)
    /\ LET t == LifeTasks[lf_i].name
       IN  /\ lf_proc' = [lf_proc EXCEPT ![t] =
                             IF LifeKind(t) = "local" THEN "running" ELSE "pending"]
           /\ lf_starts' = [lf_starts EXCEPT ![t] = Entered(lf_starts[t])]
           /\ lf_term' = [lf_term EXCEPT ![t] = FALSE]
    /\ lf_i' = lf_i + 1
    /\ lf_pc' = IF lf_i = Len(LifeTasks) THEN "loop" ELSE "start"
    /\ UNCHANGED <<lifefixed, pidvars, lf_shutdown, lf_signal, lf_status,
                   lf_cancels, lf_teardowns, lf_delivered, lf_raised, lf_cause,
                   lf_exit>>

\* run, line 145: while not self._shutdown_event.is_set()
LfLoop ==
    /\ lf_pc = "loop"
    /\ lf_pc' = IF lf_shutdown THEN "cancel" ELSE LoopEntry
    /\ lf_teardowns' = IF lf_shutdown THEN Entered(lf_teardowns) ELSE lf_teardowns
    /\ lf_i' = 1
    /\ UNCHANGED <<lifefixed, pidvars, lf_shutdown, lf_signal, lf_status, lf_proc,
                   lf_term, lf_cancels, lf_starts, lf_delivered, lf_raised,
                   lf_cause, lf_exit>>

\* _check_task_status: the recorded status of every task is refreshed
LfCheck ==
    /\ lf_pc = "check"
    /\ lf_status' = Refresh
    /\ lf_pc' = "stage"
    /\ UNCHANGED <<lifefixed, pidvars, lf_i, lf_shutdown, lf_signal, lf_proc,
                   lf_term, lf_cancels, lf_starts, lf_teardowns, lf_delivered,
                   lf_raised, lf_cause, lf_exit>>

\* the rest of the loop body, call by call
LfTick(from, to) ==
    /\ lf_pc = from
    /\ lf_pc' = to
    /\ UNCHANGED <<lifefixed, pidvars, lf_i, lf_shutdown, lf_signal, lf_status,
                   lf_proc, lf_term, lf_cancels, lf_starts, lf_teardowns,
                   lf_delivered, lf_raised, lf_cause, lf_exit>>

LfStage == LfTick("stage", "report")
LfReport == LfTick("report", "harvest")
LfHarvest == LfTick("harvest", "wait")
LfWait == LfTick("wait", "loop")

\* the idle timeout sets the shutdown event; no signal is involved
LfIdleTimeout ==
    /\ lf_pc \in {"loop", "check", "stage", "report", "harvest", "wait"}
    /\ ~lf_shutdown
    /\ lf_shutdown' = TRUE
    /\ lf_cause' = "idle"
    /\ UNCHANGED <<lifefixed, pidvars, lf_pc, lf_i, lf_signal, lf_status, lf_proc,
                   lf_term, lf_cancels, lf_starts, lf_teardowns, lf_delivered,
                   lf_raised, lf_exit>>

\* a call made in the try block raises: control goes to the finally block
LfRaise ==
    /\ lf_pc \in {"start", "check", "stage", "report", "harvest"}
    /\ lf_raised' = TRUE
    /\ lf_pc' = "cancel"
    /\ lf_teardowns' = Entered(lf_teardowns)
    /\ lf_cause' = IF lf_shutdown THEN lf_cause ELSE "error"
    /\ UNCHANGED <<lifefixed, pidvars, lf_i, lf_shutdown, lf_signal, lf_status,
                   lf_proc, lf_term, lf_cancels, lf_starts, lf_delivered, lf_exit>>

\* run, lines 153-160: terminate and scancel
LfCancel ==
    /\ lf_pc = "cancel"
    /\ LET targets == CancelTargets(lf_status, Started)
       IN  /\ lf_cancels' = [t \in LifeNames |->
                                IF t \in targets /\ Len(lf_cancels[t]) < 2
                                THEN Append(lf_cancels[t], CancelKind(t))
                                ELSE lf_cancels[t]]
           /\ lf_term' = [t \in LifeNames |-> lf_term[t] \/ t \in targets]
    /\ lf_pc' = "poll"
    /\ UNCHANGED <<lifefixed, pidvars, lf_i, lf_shutdown, lf_signal, lf_status,
                   lf_proc, lf_starts, lf_teardowns, lf_delivered, lf_raised,
                   lf_cause, lf_exit>>

\* run, lines 161-163: some status is alive, so refresh and sleep
LfPollCheck ==
    /\ lf_pc = "poll"
    /\ \E t \in LifeNames : IsAlive(lf_status[t])
    /\ lf_status' = Refresh
    /\ UNCHANGED <<lifefixed, pidvars, lf_pc, lf_i, lf_shutdown, lf_signal,
                   lf_proc, lf_term, lf_cancels, lf_starts, lf_teardowns,
                   lf_delivered, lf_raised, lf_cause, lf_exit>>

\* run, line 161: no status is alive any more
LfPollDone ==
    /\ lf_pc = "poll"
    /\ \A t \in LifeNames : ~IsAlive(lf_status[t])
    /\ lf_pc' = "unrecord"
    /\ UNCHANGED <<lifefixed, pidvars, lf_i, lf_shutdown, lf_signal, lf_status,
                   lf_proc, lf_term, lf_cancels, lf_starts, lf_teardowns,
                   lf_delivered, lf_raised, lf_cause, lf_exit>>

\* a plausible slip: the record is left behind
RecordKept(exists, content) == [exists |-> exists, content |-> content]

\* shutdown sequence, step 3: the PID record is removed
RecordRemoved(exists, content) == [exists |-> FALSE, content |-> <<>>]

LfUnrecord ==
    /\ lf_pc = "unrecord"
    /\ pf_exists' = RecordRemoved(pf_exists, pf_content).exists
    /\ pf_content' = RecordRemoved(pf_exists, pf_content).content
    /\ lf_pc' = "exit"
    /\ UNCHANGED <<lifefixed, pf_procs, lf_i, lf_shutdown, lf_signal, lf_status,
                   lf_proc, lf_term, lf_cancels, lf_starts, lf_teardowns,
                   lf_delivered, lf_raised, lf_cause, lf_exit>>

\* run, lines 165-166: sys.exit(128 + signum), or run returns or re-raises
LfExit ==
    /\ lf_pc = "exit"
    /\ lf_exit' = ExitCode(lf_signal, lf_raised)
    /\ lf_pc' = "exited"
    /\ pf_procs' = [pf_procs EXCEPT ![SupPid] = "gone"]
    /\ UNCHANGED <<lifefixed, pf_exists, pf_content, lf_i, lf_shutdown, lf_signal,
                   lf_status, lf_proc, lf_term, lf_cancels, lf_starts,
                   lf_teardowns, lf_delivered, lf_raised, lf_cause>>

\* SIGHUP, SIGINT or SIGTERM is delivered while the handlers are registered
LfSignal(sig) ==
    /\ lf_pc \in {"start", "loop", "check", "stage", "report", "harvest", "wait",
                  "cancel", "poll", "unrecord", "exit"}
    /\ LET h == SignalHandler(sig, lf_signal, lf_shutdown, lf_pc)
       IN  /\ lf_signal' = h.signal
           /\ lf_shutdown' = h.shutdown
           /\ lf_pc' = h.pc
           /\ lf_teardowns' = IF h.pc # lf_pc THEN Entered(lf_teardowns)
                              ELSE lf_teardowns
    /\ lf_delivered' = lf_delivered \cup {sig}
    /\ lf_cause' = IF lf_cause = "none" THEN "signal" ELSE lf_cause
    /\ UNCHANGED <<lifefixed, pidvars, lf_i, lf_status, lf_proc, lf_term,
                   lf_cancels, lf_starts, lf_raised, lf_exit>>

\* a task's subprocess exits, or its cluster job ends, on its own
TaskExit(t) ==
    /\ lf_proc[t] \in {"running", "pending"}
    /\ ~lf_term[t]
    /\ lf_proc' = [lf_proc EXCEPT ![t] = "dead"]
    /\ UNCHANGED <<lifefixed, pidvars, lf_pc, lf_i, lf_shutdown, lf_signal,
                   lf_status, lf_term, lf_cancels, lf_starts, lf_teardowns,
                   lf_delivered, lf_raised, lf_cause, lf_exit>>

\* a task that was sent its cancel dies
TaskCancelled(t) ==
    /\ lf_proc[t] \in {"running", "pending"}
    /\ lf_term[t]
    /\ lf_proc' = [lf_proc EXCEPT ![t] = "dead"]
    /\ UNCHANGED <<lifefixed, pidvars, lf_pc, lf_i, lf_shutdown, lf_signal,
                   lf_status, lf_term, lf_cancels, lf_starts, lf_teardowns,
                   lf_delivered, lf_raised, lf_cause, lf_exit>>

\* the cluster starts a pending client job
SlurmRun(t) ==
    /\ LifeKind(t) = "slurm"
    /\ lf_proc[t] = "pending"
    /\ lf_proc' = [lf_proc EXCEPT ![t] = "running"]
    /\ UNCHANGED <<lifefixed, pidvars, lf_pc, lf_i, lf_shutdown, lf_signal,
                   lf_status, lf_term, lf_cancels, lf_starts, lf_teardowns,
                   lf_delivered, lf_raised, lf_cause, lf_exit>>

\* the steps the supervisor takes by itself
LfStep ==
    \/ LfLockCheck
    \/ LfRecord
    \/ LfStartTask
    \/ LfLoop
    \/ LfCheck
    \/ LfStage
    \/ LfReport
    \/ LfHarvest
    \/ LfWait
    \/ LfCancel
    \/ LfPollCheck
    \/ LfPollDone
    \/ LfUnrecord
    \/ LfExit

NextLife ==
    \/ LfStep
    \/ LfIdleTimeout
    \/ LfRaise
    \/ \E sig \in Signals : LfSignal(sig)
    \/ \E t \in LifeNames : TaskExit(t)
    \/ \E t \in LifeNames : TaskCancelled(t)
    \/ \E t \in LifeNames : SlurmRun(t)

SpecLife == InitLife /\ [][NextLife]_vars

\* the supervisor keeps taking steps, and a cancelled task dies
SpecLifeFair ==
    /\ SpecLife
    /\ WF_vars(LfStep)
    /\ \A t \in LifeNames : WF_vars(TaskCancelled(t))

\* the supervisor has left through the shutdown sequence
LeftByShutdown == lf_pc = "exited"
OwnRecord == pf_exists /\ pf_content = StrOf(SupPid)

C14_GracefulShutdown ==
    /\ [][(lf_shutdown /\ lf_pc = "loop") => lf_pc' \in {"loop", "cancel"}]_vars
    /\ [][(lf_pc = "cancel" /\ lf_pc' = "poll") =>
             \A t \in LifeNames :
                 IsAlive(lf_status[t]) =>
                     lf_cancels'[t] = Append(lf_cancels[t], CancelKind(t))]_vars
    /\ [](lf_pc \in {"unrecord", "exit", "exited"} =>
             \A t \in LifeNames : ~IsAlive(lf_status[t]))
    /\ (lf_shutdown ~> lf_pc = "exited")

\* both tasks were alive at the signal, were cancelled, and the supervisor left
C14_Witness ==
    /\ lf_pc = "exited"
    /\ lf_cause = "signal"
    /\ lf_cancels = [t \in LifeNames |-> <<CancelKind(t)>>]
    /\ \A t \in LifeNames : lf_proc[t] = "dead"

\* C15: shutdown idempotence: whatever signals arrive, in the main loop or in
\* the shutdown sequence, the shutdown sequence is entered at most once and a
\* task is sent at most one cancel.
C15_ShutdownIdempotence ==
    /\ lf_teardowns <= 1
    /\ \A t \in LifeNames : Len(lf_cancels[t]) <= 1

\* three different signals were delivered, the last of them during the poll
C15_Witness ==
    /\ lf_pc = "poll"
    /\ lf_delivered = Signals
    /\ lf_teardowns = 1
    /\ \E t \in LifeNames : Len(lf_cancels[t]) = 1 /\ lf_proc[t] # "dead"

C17_NoAutoRestart ==
    /\ [](\A t \in LifeNames : lf_starts[t] <= 1)
    /\ [](lf_pc \in {"loop", "check", "stage", "report", "harvest", "wait"} =>
             \A t \in LifeNames : lf_starts[t] = 1)
    /\ [][(lf_pc = "check" /\ lf_pc' # "check" /\ ~lf_raised') =>
             /\ lf_pc' = "stage"
             /\ lf_starts' = lf_starts
             /\ lf_proc' = lf_proc
             /\ \A t \in LifeNames :
                    lf_proc[t] = "dead" => lf_status'[t] = "INACTIVE"]_vars

\* a tick reaches the harvest with one task dead and recorded so, the other alive
C17_Witness ==
    /\ lf_pc = "harvest"
    /\ ~lf_shutdown
    /\ lf_proc["L"] = "dead" /\ lf_status["L"] = "INACTIVE"
    /\ lf_proc["S"] = "running" /\ lf_status["S"] = "ACTIVE"
    /\ lf_starts = [t \in LifeNames |-> 1]

----------------------------------------------------------------------------
(* PipelineConfig.validate_task_dependency_graph on every task list up to    *)
(* MaxTasks, and _start_tasks on the validated list.                         *)

\* longest task list
MaxTasks == 3

\* a task reads .t or .o and writes .o
GraphIo == {[in |-> <<".", "t">>, out |-> <<".", "o">>],
            [in |-> <<".", "o">>, out |-> <<".", "o">>]}
GraphTasks ==
    {Task(n, d, io.in, io.out, TRUE) :
        n \in TaskNames, d \in TaskNames \cup {NoTask}, io \in GraphIo}
GraphConfigs == UNION {[1..k -> GraphTasks] : k \in 0..MaxTasks}

\* nx.DiGraph built by lines 310-314: nodes in the order they were added
RECURSIVE NodeOrder(_, _)
NodeOrder(cfg, acc) ==
    IF cfg = <<>> THEN acc
    ELSE LET t == Head(cfg)
             seen == {acc[i] : i \in 1..Len(acc)}
             a1 == IF t.name \in seen THEN acc ELSE Append(acc, t.name)
             a2 == IF t.depends_on = NoTask \/ t.depends_on \in seen \cup {t.name}
                   THEN a1 ELSE Append(a1, t.depends_on)
         IN  NodeOrder(Tail(cfg), a2)
GraphNodes(cfg) == {cfg[i].name : i \in 1..Len(cfg)}
                   \cup {cfg[i].depends_on : i \in {j \in 1..Len(cfg) : cfg[j].depends_on # NoTask}}
GraphEdges(cfg) ==
    {<<cfg[i].depends_on, cfg[i].name>> : i \in {j \in 1..Len(cfg) : cfg[j].depends_on # NoTask}}
InDegree(cfg, n) == Cardinality({e \in GraphEdges(cfg) : e[2] = n})

\* nx.weakly_connected_components: the component of a node
RECURSIVE Component(_, _)
Component(cfg, S) ==
    LET more == S \cup {e[2] : e \in {x \in GraphEdges(cfg) : x[1] \in S}}
                  \cup {e[1] : e \in {x \in GraphEdges(cfg) : x[2] \in S}}
    IN  IF more = S THEN S ELSE Component(cfg, more)
Components(cfg) == {Component(cfg, {n}) : n \in GraphNodes(cfg)}

\* nx.is_forest: every weakly connected component has one edge less than nodes
IsForest(cfg) ==
    \A c \in Components(cfg) :
        Cardinality({e \in GraphEdges(cfg) : e[1] \in c /\ e[2] \in c}) = Cardinality(c) - 1

\* a plausible slip: only the in-degrees are looked at
IsBranchingInDegreeOnly(cfg) == \A n \in GraphNodes(cfg) : InDegree(cfg, n) <= 1

\* nx.is_branching: a forest in which no node has two parents
IsBranching(cfg) == IsForest(cfg) /\ \A n \in GraphNodes(cfg) : InDegree(cfg, n) <= 1

\* G.neighbors(node): the children in the order their edges were added
RECURSIVE ChildrenOf(_, _)
ChildrenOf(cfg, n) ==
    IF cfg = <<>> THEN <<>>
    ELSE (IF Head(cfg).depends_on = n THEN <<Head(cfg).name>> ELSE <<>>)
         \o ChildrenOf(Tail(cfg), n)

\* nx.topological_generations: the generation after gen
RECURSIVE NextGeneration(_, _)
NextGeneration(cfg, gen) ==
    IF gen = <<>> THEN <<>>
    ELSE ChildrenOf(cfg, Head(gen)) \o NextGeneration(cfg, Tail(gen))

RECURSIVE Generations(_, _)
Generations(cfg, gen) ==
    IF gen = <<>> THEN <<>> ELSE gen \o Generations(cfg, NextGeneration(cfg, gen))

\* a plausible slip: the tasks are left in the order of the file
ListedOrder(cfg) == [i \in 1..Len(cfg) |-> cfg[i].name]

\* nx.topological_sort of a branching: the nodes without parent in node order,
\* then generation after generation
TopologicalOrder(cfg) ==
    LET order == NodeOrder(cfg, <<>>)
        roots == SelectSeq(order, LAMBDA n : InDegree(cfg, n) = 0)
    IN  Generations(cfg, roots)

\* lines 324-325: tasks.sort by the position in the topological order
SortedTasks(cfg) ==
    LET order == TopologicalOrder(cfg)
    IN  [i \in 1..Len(order) |-> TaskByName(cfg, order[i])]

\* validate_task_dependency_graph: "ok", or the check that raised ValueError
Validate(cfg) ==
    LET n == Len(cfg)
        names == NamesOf(cfg)
        bad(i) == /\ cfg[i].depends_on # NoTask
                  /\ \/ cfg[i].depends_on \notin names
                     \/ TaskByName(cfg, cfg[i].depends_on).output_ext # cfg[i].input_ext
        first == CHOOSE i \in 1..n : bad(i) /\ \A j \in 1..(i - 1) : ~bad(j)
        root_input_ext == {cfg[i].input_ext : i \in {j \in 1..n : cfg[j].depends_on = NoTask}}
    IN  IF n = 0 THEN "empty"
        ELSE IF \E i, j \in 1..n : i # j /\ cfg[i].name = cfg[j].name THEN "duplicate"
        ELSE IF \E i \in 1..n : bad(i)
             THEN IF cfg[first].depends_on \notin names THEN "unknown" ELSE "mismatch"
        ELSE IF ~IsBranching(cfg) THEN "cycle"
        ELSE IF Cardinality(root_input_ext) > 1 THEN "root_ext"
        ELSE "ok"

\* what the graph steps leave alone
graphfixed == <<corevars, pidvars, lockvars, lifevars>>

InitGraph ==
    /\ PipeIdle /\ AwIdle /\ PidIdle /\ LockIdle /\ LifeIdle /\ CompIdle
    /\ gr_cfg \in GraphConfigs
    /\ gr_pc = "loaded"
    /\ gr_result = "none"
    /\ gr_tasks = <<>>
    /\ gr_started = <<>>

\* PipelineConfig.model_validate: the validator runs on the listed tasks
GrValidate ==
    /\ gr_pc = "loaded"
    /\ gr_result' = Validate(gr_cfg)
    /\ gr_tasks' = IF Validate(gr_cfg) = "ok" THEN SortedTasks(gr_cfg) ELSE <<>>
    /\ gr_pc' = IF Validate(gr_cfg) = "ok" THEN "start" ELSE "rejected"
    /\ UNCHANGED <<graphfixed, gr_cfg, gr_started>>

\* _start_tasks: one iteration of for task in self._config.tasks
GrStartTask ==
    /\ gr_pc = "start"
    /\ Len(gr_started) < Len(gr_tasks)
    /\ gr_started' = Append(gr_started, gr_tasks[Len(gr_started) + 1].name)
    /\ gr_pc' = IF Len(gr_started) + 1 = Len(gr_tasks) THEN "started" ELSE "start"
    /\ UNCHANGED <<graphfixed, gr_cfg, gr_result, gr_tasks>>

NextGraph == GrValidate \/ GrStartTask

SpecGraph == InitGraph /\ [][NextGraph]_vars

\* the task reached from n by following depends_on k times, NoTask past a root
RECURSIVE Up(_, _, _)
Up(cfg, n, k) ==
    IF k = 0 \/ n = NoTask \/ n \notin NamesOf(cfg) THEN n
    ELSE Up(cfg, TaskByName(cfg, n).depends_on, k - 1)
RootsOf(cfg) == {cfg[i].name : i \in {j \in 1..Len(cfg) : cfg[j].depends_on = NoTask}}

\* C18: graph validator soundness: an accepted task list is not empty, has
\* unique names, every depends_on names a task of the list, a child's input_ext
\* is its parent's output_ext, following depends_on from any task ends at a
\* root (no cycle, no task depending on itself), and all roots have one
\* input_ext.
C18_ValidatorSoundness ==
    gr_result = "ok" =>
        /\ Len(gr_cfg) >= 1
        /\ \A i, j \in 1..Len(gr_cfg) : gr_cfg[i].name = gr_cfg[j].name => i = j
        /\ \A i \in 1..Len(gr_cfg) :
              gr_cfg[i].depends_on # NoTask =>
                  /\ gr_cfg[i].depends_on \in NamesOf(gr_cfg)
                  /\ TaskByName(gr_cfg, gr_cfg[i].depends_on).output_ext = gr_cfg[i].input_ext
                  /\ gr_cfg[i].depends_on # gr_cfg[i].name
        /\ \A n \in NamesOf(gr_cfg) : Up(gr_cfg, n, Len(gr_cfg)) = NoTask
        /\ \A a, b \in RootsOf(gr_cfg) :
              TaskByName(gr_cfg, a).input_ext = TaskByName(gr_cfg, b).input_ext

\* an accepted branching list: one root with two children
C18_Witness ==
    /\ gr_result = "ok"
    /\ Len(gr_cfg) = 3
    /\ Cardinality(RootsOf(gr_cfg)) = 1
    /\ \E r \in RootsOf(gr_cfg) : Len(ChildrenOf(gr_cfg, r)) = 2

\* C19: rooted in-tree: an accepted task list has at most one parent per task,
\* at least one root and a single connected component, so two disconnected
\* trees are rejected.
C19_RootedInTree ==
    gr_result = "ok" =>
        /\ \A n \in GraphNodes(gr_cfg) : InDegree(gr_cfg, n) <= 1
        /\ RootsOf(gr_cfg) # {}
        /\ Cardinality(Components(gr_cfg)) = 1

\* C20: topological order: in the validated list every task comes after the
\* task it depends on, the list holds the same tasks as the file, and
\* _start_tasks starts them in the order of the list.
C20_TopologicalOrder ==
    gr_result = "ok" =>
        /\ Len(gr_tasks) = Len(gr_cfg)
        /\ {gr_tasks[i] : i \in 1..Len(gr_tasks)} = {gr_cfg[i] : i \in 1..Len(gr_cfg)}
        /\ \A i \in 1..Len(gr_tasks) :
              gr_tasks[i].depends_on # NoTask =>
                  \E j \in 1..(i - 1) : gr_tasks[j].name = gr_tasks[i].depends_on
        /\ Len(gr_started) <= Len(gr_tasks)
        /\ \A i \in 1..Len(gr_started) : gr_started[i] = gr_tasks[i].name

\* a chain of three listed last task first was validated and started
C20_Witness ==
    /\ gr_pc = "started"
    /\ Len(gr_cfg) = 3
    /\ gr_cfg[1].depends_on = gr_cfg[2].name
    /\ gr_cfg[2].depends_on = gr_cfg[3].name
    /\ gr_started = <<gr_cfg[3].name, gr_cfg[2].name, gr_cfg[1].name>>

----------------------------------------------------------------------------
(* staging.py: the middleware chain. Files are path names; what stat(),      *)
(* Path.name and is_file() answer for them is a table that no step changes.  *)

\* steps of a chain
MaxSteps == 3

\* candidates handed to a chain
MaxCands == 2

\* count of a limit step, and files already staged, when a limit step runs alone
MaxCount == 3
MaxStagedNow == 4

StFileList == <<"f1", "f2", "f3", "f4", "f5">>
StFiles == {StFileList[i] : i \in 1..Len(StFileList)}

\* time.time()
Now == 10

StAttr ==
    [f \in StFiles |->
        CASE f = "f1" -> [name |-> <<"a", "x">>, size |-> 2, mtime |-> 5, companions |-> {".m"}]
          [] f = "f2" -> [name |-> <<"b", "x">>, size |-> 2, mtime |-> 5, companions |-> {".m"}]
          [] f = "f3" -> [name |-> <<"a", "y">>, size |-> 1, mtime |-> 6, companions |-> {".m"}]
          [] f = "f4" -> [name |-> <<"a", "z">>, size |-> 3, mtime |-> 9, companions |-> {".m"}]
          [] f = "f5" -> [name |-> <<"a", "w">>, size |-> 2, mtime |-> 4, companions |-> {}]]

\* [f for f in candidates if keep(f)]
SelectFiles(candidates, keep(_)) == SelectSeq(candidates, keep)

MinSizeFilter(candidates, bytes) ==
    LET keep(f) == StAttr[f].size >= bytes IN SelectFiles(candidates, keep)

MaxSizeFilter(candidates, bytes) ==
    LET keep(f) == StAttr[f].size <= bytes IN SelectFiles(candidates, keep)

MinAgeFilter(candidates, seconds) ==
    LET keep(f) == (Now - StAttr[f].mtime) >= seconds IN SelectFiles(candidates, keep)

\* re.search of a pattern made of literal characters
RegexSearch(pattern, name) ==
    \E i \in 1..(Len(name) - Len(pattern) + 1) :
        SubSeq(name, i, i + Len(pattern) - 1) = pattern

FilenameMatchFilter(candidates, pattern) ==
    LET keep(f) == RegexSearch(pattern, StAttr[f].name) IN SelectFiles(candidates, keep)

\* a limit in place of a filter: only the first file with a companion is kept
CompanionFileFilterFirstOnly(candidates, ext) ==
    LET keep(f) == ext \in StAttr[f].companions
        kept == SelectFiles(candidates, keep)
    IN  IF kept = <<>> THEN <<>> ELSE <<kept[1]>>

CompanionFileFilter(candidates, ext) ==
    LET keep(f) == ext \in StAttr[f].companions IN SelectFiles(candidates, keep)

\* candidates[:n] for n >= 0
FirstN(candidates, n) ==
    SubSeq(candidates, 1, IF n < Len(candidates) THEN n ELSE Len(candidates))

\* a plausible slip: the capacity is counted one too many
MaxStagedLimitOffByOne(candidates, count, staged) ==
    LET remaining_capacity == IF count - staged >= 0 THEN count - staged + 1 ELSE 0
    IN  FirstN(candidates, remaining_capacity)

\* the limit applied without looking at what is staged
MaxStagedLimitIgnoresStaged(candidates, count, staged) == FirstN(candidates, count)

MaxStagedLimit(candidates, count, staged) ==
    LET remaining_capacity == IF count - staged > 0 THEN count - staged ELSE 0
    IN  FirstN(candidates, remaining_capacity)

MaxBatchLimit(candidates, count) == FirstN(candidates, count)

\* the characters of file names, in the order of their code points
StAlphabet == <<"a", "b", "w", "x", "y", "z">>

\* sorted(candidates, key=..., reverse=reverse): stable, also when reversed
SortBy(candidates, key, reverse) ==
    LET Rank(c) == CHOOSE i \in 1..Len(StAlphabet) : StAlphabet[i] = c
        NameLess(a, b) ==
            \E i \in 1..(Len(a) + 1) :
                /\ i <= Len(b)
                /\ SubSeq(a, 1, i - 1) = SubSeq(b, 1, i - 1)
                /\ (i = Len(a) + 1 \/ Rank(a[i]) < Rank(b[i]))
        Less(f, g) ==
            CASE key = "name" -> NameLess(StAttr[f].name, StAttr[g].name)
              [] key = "size" -> StAttr[f].size < StAttr[g].size
              [] key = "mtime" -> StAttr[f].mtime < StAttr[g].mtime
        Before(f, g) == IF reverse THEN Less(g, f) ELSE Less(f, g)
        RECURSIVE Sorted(_)
        Sorted(s) ==
            IF s = <<>> THEN <<>>
            ELSE LET x == s[Len(s)]
                     front == Sorted(SubSeq(s, 1, Len(s) - 1))
                     pos == Cardinality({i \in 1..Len(front) : ~Before(x, front[i])})
                 IN  SubSeq(front, 1, pos) \o <<x>> \o SubSeq(front, pos + 1, Len(front))
    IN  IF key \in {"name", "size", "mtime"} THEN Sorted(candidates) ELSE candidates

\* functions a configuration can name: one returns its candidates and a file
\* of its own, one raises
UserFunctions == {"extend", "raises"}

\* fn(candidates, state), [] if it raises
CallableMiddleware(candidates, function) ==
    CASE function = "extend" -> candidates \o <<"f1">>
      [] function = "raises" -> <<>>

Step(kind, n, s) == [kind |-> kind, n |-> n, s |-> s]

FilterKinds == {"min_size", "max_size", "min_age", "filename_match", "companion_file"}
LimitKinds == {"max_staged", "max_batch"}

\* the steps a chain is made of
StagingMiddlewareConfig ==
    { Step("min_size", 2, ""), Step("max_size", 2, ""), Step("min_age", 3, ""),
      Step("filename_match", 0, "a"), Step("companion_file", 0, ".m"),
      Step("max_staged", 2, ""), Step("max_batch", 1, ""),
      Step("sort_by", 1, "size") } \cup
    { Step("callable", 0, fn) : fn \in UserFunctions }

\* step(result, state)
ApplyStep(step, candidates, staged) ==
    CASE step.kind = "min_size" -> MinSizeFilter(candidates, step.n)
      [] step.kind = "max_size" -> MaxSizeFilter(candidates, step.n)
      [] step.kind = "min_age" -> MinAgeFilter(candidates, step.n)
      [] step.kind = "filename_match" -> FilenameMatchFilter(candidates, <<step.s>>)
      [] step.kind = "companion_file" -> CompanionFileFilter(candidates, step.s)
      [] step.kind = "max_staged" -> MaxStagedLimit(candidates, step.n, staged)
      [] step.kind = "max_batch" -> MaxBatchLimit(candidates, step.n)
      [] step.kind = "sort_by" -> SortBy(candidates, step.s, step.n = 1)
      [] step.kind = "callable" -> CallableMiddleware(candidates, step.s)

\* the loop of process without its break
RECURSIVE ProcessLoopNoBreak(_, _, _, _, _)
ProcessLoopNoBreak(steps, i, result, staged, calls) ==
    IF i > Len(steps) THEN [result |-> result, calls |-> calls]
    ELSE ProcessLoopNoBreak(steps, i + 1, ApplyStep(steps[i], result, staged), staged,
                            Append(calls, result))

\* for step in self.steps: result = step(result, state); if not result: break
RECURSIVE ProcessLoop(_, _, _, _, _)
ProcessLoop(steps, i, result, staged, calls) ==
    IF i > Len(steps) THEN [result |-> result, calls |-> calls]
    ELSE LET next == ApplyStep(steps[i], result, staged)
         IN  IF next = <<>>
             THEN [result |-> next, calls |-> Append(calls, result)]
             ELSE ProcessLoop(steps, i + 1, next, staged, Append(calls, result))

\* StagingPipeline.process
Process(steps, candidates, staged) == ProcessLoop(steps, 1, candidates, staged, <<>>)

\* every variable of the supervisor, of its runtimes and of its start-up
basevars == <<recvars, tasks, delete_input, fsvars, supvars, rtvars, histvars, awvars,
              pidvars, lockvars, lifevars, graphvars>>
\* what a call of process leaves alone
stagefixed == <<basevars, ctxvars, runtimevars>>

SeqsUpTo(S, n) == UNION {[1..k -> S] : k \in 0..n}
Distinct(s) == \A i, j \in 1..Len(s) : s[i] = s[j] => i = j

InitStaging ==
    /\ PipeIdle /\ AwIdle /\ PidIdle /\ LockIdle /\ LifeIdle /\ GraphIdle
    /\ CtxIdle /\ RuntimeIdle /\ RecIdle
    /\ st_candidates \in {c \in SeqsUpTo(StFiles, MaxCands) : Distinct(c)}
    /\ st_staged \in {0, 2}
    /\ st_steps \in SeqsUpTo(StagingMiddlewareConfig, MaxSteps)
    /\ st_pc = "ready"
    /\ st_result = <<>>
    /\ st_calls = <<>>

\* one call of StagingPipeline.process(candidates, state)
StProcess ==
    /\ st_pc = "ready"
    /\ LET r == Process(st_steps, st_candidates, st_staged)
       IN  /\ st_result' = r.result
           /\ st_calls' = r.calls
    /\ st_pc' = "returned"
    /\ UNCHANGED <<stagefixed, st_candidates, st_staged, st_steps>>

NextStaging == StProcess

SpecStaging == InitStaging /\ [][NextStaging]_vars

\* a limit step alone, on the first files of the directory in any number
InitLimit ==
    /\ PipeIdle /\ AwIdle /\ PidIdle /\ LockIdle /\ LifeIdle /\ GraphIdle
    /\ CtxIdle /\ RuntimeIdle /\ RecIdle
    /\ st_candidates \in {SubSeq(StFileList, 1, k) : k \in 0..Len(StFileList)}
    /\ st_staged \in 0..MaxStagedNow
    /\ st_steps \in {<<Step(kind, n, "")>> : kind \in LimitKinds, n \in 1..MaxCount}
    /\ st_pc = "ready"
    /\ st_result = <<>>
    /\ st_calls = <<>>

SpecLimit == InitLimit /\ [][NextStaging]_vars

Range(s) == {s[i] : i \in 1..Len(s)}

\* r is c with some of its elements left out
IsSubList(r, c) ==
    \E f \in [1..Len(r) -> 1..Len(c)] :
        /\ \A i \in 1..Len(r) : c[f[i]] = r[i]
        /\ \A i, j \in 1..Len(r) : i < j => f[i] < f[j]

\* the orderings of the steps of a chain
Orderings(steps) ==
    {[i \in 1..Len(steps) |-> steps[p[i]]] :
        p \in {q \in [1..Len(steps) -> 1..Len(steps)] :
                 \A i, j \in 1..Len(steps) : q[i] = q[j] => i = j}}

FilterChain(steps) == \A i \in 1..Len(steps) : steps[i].kind \in FilterKinds

\* C21: for a chain made only of filter steps, process returns a sub-list of
\* its input, and every ordering of the same steps keeps the same set of files.
C21_FilterLaw ==
    (st_pc = "returned" /\ FilterChain(st_steps)) =>
        /\ IsSubList(st_result, st_candidates)
        /\ \A p \in Orderings(st_steps) :
               Range(Process(p, st_candidates, st_staged).result) = Range(st_result)

\* a chain of three different filters that keeps one file of two
C21_Witness ==
    /\ st_pc = "returned"
    /\ FilterChain(st_steps)
    /\ Len(st_steps) = 3
    /\ Cardinality({st_steps[i].kind : i \in 1..3}) = 3
    /\ Len(st_candidates) = 2
    /\ Len(st_result) = 1

\* C22: max_batch N returns the first min(N, len) candidates and max_staged N
\* the first max(0, N - staged) candidates; both return at most N files, and
\* max_staged returns nothing when staged >= N; with 2 staged, max_staged 3 and
\* 5 candidates exactly 1 file is admitted.
C22_Limits ==
    (st_pc = "returned" /\ Len(st_steps) = 1 /\ st_steps[1].kind \in LimitKinds) =>
        LET N == st_steps[1].n
            len == Len(st_candidates)
            Min(a, b) == IF a < b THEN a ELSE b
            Max(a, b) == IF a > b THEN a ELSE b
        IN  /\ Len(st_result) <= N
            /\ st_steps[1].kind = "max_batch" =>
                   st_result = SubSeq(st_candidates, 1, Min(N, len))
            /\ st_steps[1].kind = "max_staged" =>
                   /\ st_result = SubSeq(st_candidates, 1, Min(Max(0, N - st_staged), len))
                   /\ st_staged >= N => st_result = <<>>
                   /\ (st_staged = 2 /\ N = 3 /\ len = 5) => Len(st_result) = 1

\* 2 files staged, max_staged 3, 5 candidates: the first candidate is admitted
C22_Witness ==
    /\ st_pc = "returned"
    /\ st_steps = <<Step("max_staged", 3, "")>>
    /\ st_staged = 2
    /\ Len(st_candidates) = 5
    /\ st_result = <<"f1">>

\* C23: the steps are applied in declared order, each to what the one before
\* returned; once a step returns the empty list no further step is invoked and
\* the empty list is returned, so no step after the first is called with an
\* empty list.
C23_ShortCircuit ==
    st_pc = "returned" =>
        /\ Len(st_calls) <= Len(st_steps)
        /\ Len(st_calls) > 0 => st_calls[1] = st_candidates
        /\ \A k \in 1..Len(st_calls) :
               LET out == ApplyStep(st_steps[k], st_calls[k], st_staged)
               IN  /\ k > 1 => st_calls[k] # <<>>
                   /\ k < Len(st_calls) => st_calls[k + 1] = out
                   /\ k = Len(st_calls) => st_result = out
                   /\ out = <<>> => k = Len(st_calls)
                   /\ (out # <<>> /\ k < Len(st_steps)) => k < Len(st_calls)
        /\ Len(st_calls) = 0 => (st_steps = <<>> /\ st_result = st_candidates)

\* the list became empty before a callable that would have added a file
C23_Witness ==
    /\ st_pc = "returned"
    /\ st_candidates # <<>>
    /\ st_result = <<>>
    /\ Len(st_calls) < Len(st_steps)
    /\ st_steps[Len(st_steps)] = Step("callable", 0, "extend")

----------------------------------------------------------------------------
(* utils.SetupContext: a namespace whose attributes live in one dictionary, *)
(* the flag _frozen among them. Values are written as Python writes them.   *)

CtxKeys == {"_frozen", "conn"}
CtxValues == {"True", "False", "obj"}
NoAttr == "<absent>"

\* bool(value)
Truthy(value) == value # "False"

\* getattr(self, "_frozen", False)
IsFrozen(attrs) == attrs["_frozen"] # NoAttr /\ Truthy(attrs["_frozen"])

\* __setattr__ that never consults the flag
SetattrUnguarded(attrs, key, value) ==
    [raised |-> FALSE, attrs |-> [attrs EXCEPT ![key] = value]]

\* SetupContext.__setattr__(key, value)
Setattr(attrs, key, value) ==
    IF IsFrozen(attrs)
    THEN [raised |-> TRUE, attrs |-> attrs]
    ELSE [raised |-> FALSE, attrs |-> [attrs EXCEPT ![key] = value]]

\* SetupContext.__delattr__(key); SimpleNamespace raises for a missing attribute
Delattr(attrs, key) ==
    IF IsFrozen(attrs) \/ attrs[key] = NoAttr
    THEN [raised |-> TRUE, attrs |-> attrs]
    ELSE [raised |-> FALSE, attrs |-> [attrs EXCEPT ![key] = NoAttr]]

\* SetupContext.freeze(): self._frozen = True
Freeze(attrs) == Setattr(attrs, "_frozen", "True")

\* SetupContext(): no attribute but _frozen = False
InitContext ==
    /\ PipeIdle /\ AwIdle /\ PidIdle /\ LockIdle /\ LifeIdle /\ GraphIdle
    /\ StageIdle /\ RuntimeIdle /\ RecIdle
    /\ cx_attrs = [k \in CtxKeys |-> IF k = "_frozen" THEN "False" ELSE NoAttr]
    /\ cx_last = [op |-> "init", key |-> "_frozen", value |-> "False", raised |-> FALSE]
    /\ cx_before = cx_attrs
    /\ cx_froze = FALSE

ctxfixed == <<basevars, stagevars, runtimevars>>

CxDone(op, key, value, r) ==
    /\ cx_attrs' = r.attrs
    /\ cx_last' = [op |-> op, key |-> key, value |-> value, raised |-> r.raised]
    /\ cx_before' = cx_attrs
    /\ UNCHANGED ctxfixed

\* context.key = value
CxSetattr ==
    \E key \in CtxKeys, value \in CtxValues :
        /\ CxDone("set", key, value, Setattr(cx_attrs, key, value))
        /\ UNCHANGED cx_froze

\* del context.key
CxDelattr ==
    \E key \in CtxKeys :
        /\ CxDone("del", key, NoAttr, Delattr(cx_attrs, key))
        /\ UNCHANGED cx_froze

\* context.freeze()
CxFreeze ==
    /\ CxDone("freeze", "_frozen", "True", Freeze(cx_attrs))
    /\ cx_froze' = (cx_froze \/ ~Freeze(cx_attrs).raised)

NextContext == CxSetattr \/ CxDelattr \/ CxFreeze

SpecContext == InitContext /\ [][NextContext]_vars

\* C25: before freeze() setting an attribute and deleting an existing one
\* succeed; once freeze() has returned every set and every delete, of _frozen
\* included, raises and leaves the context as it was, and the context stays
\* frozen.
C25_FrozenContext ==
    /\ (cx_last.op = "set" /\ ~IsFrozen(cx_before)) =>
           (~cx_last.raised /\ cx_attrs = [cx_before EXCEPT ![cx_last.key] = cx_last.value])
    /\ (cx_last.op = "del" /\ ~IsFrozen(cx_before) /\ cx_before[cx_last.key] # NoAttr) =>
           (~cx_last.raised /\ cx_attrs = [cx_before EXCEPT ![cx_last.key] = NoAttr])
    /\ cx_froze => IsFrozen(cx_attrs)
    /\ (cx_froze /\ cx_last.op \in {"set", "del"}) =>
           (cx_last.raised /\ cx_attrs = cx_before)

\* after freeze() an attempt to set or delete _frozen itself has been made
C25_Witness ==
    /\ cx_froze
    /\ cx_last.op \in {"set", "del"}
    /\ cx_last.key = "_frozen"
    /\ cx_last.raised
    /\ cx_before["conn"] = "obj"

----------------------------------------------------------------------------
(* The three task runtimes, each in its own process: LocalTask.start,        *)
(* LocalAsyncTask.start and SlurmTask.start. A file is named by its number;  *)
(* rn_out and rn_err hold the files whose <stem><output_ext> and <stem>.err  *)
(* exist.                                                                    *)

\* files in the input directory of a runtime
MaxFiles == 3

\* largest concurrency_limit of a LocalAsyncTask
MaxConcurrency == 2

\* files in the input directory of a SlurmTask
MaxClusterFiles == 2

RnFiles == 1..MaxFiles
ClusterFiles == 1..MaxClusterFiles

SIGINT == 2
SIGTERM == 15
RnSignals == {SIGINT, SIGTERM}

\* the context of a runtime process, and the contexts of the cluster workers
ProcContext == "proc"
ClusterWorkers == {"w1", "w2"}
RnContexts == {ProcContext} \cup ClusterWorkers

\* Task._get_unprocessed_files
Unprocessed(input, out, err) == {f \in input : f \notin (out \cup err)}

\* the setup callback is not called
WithoutSetup(ctx, c) == ctx

\* setup_func(context)
WithSetup(ctx, c) == [ctx EXCEPT ![c].setups = @ + 1]
\* context.freeze()
WithFreeze(ctx, c) == [ctx EXCEPT ![c].frozen = TRUE]
\* run_func(context, ...) begins
WithUse(ctx, c) == [ctx EXCEPT ![c].used = TRUE]
\* teardown_func(context)
WithTeardown(ctx, c) == [ctx EXCEPT ![c].teardowns = @ + 1]

InitRuntimes ==
    /\ PipeIdle /\ AwIdle /\ PidIdle /\ LockIdle /\ LifeIdle /\ GraphIdle
    /\ StageIdle /\ CtxIdle /\ RecIdle
    /\ rn_variant \in {"S", "A", "C"}
    /\ rn_input \in SUBSET (IF rn_variant = "C" THEN ClusterFiles ELSE RnFiles)
    /\ rn_out = {} /\ rn_err = {}
    /\ rn_pc = "start"
    /\ rn_ctx = [c \in RnContexts |->
                    [setups |-> 0, frozen |-> FALSE, teardowns |-> 0, used |-> FALSE]]
    /\ rn_signals = {}
    /\ sq_batch = {} /\ sq_cur = {}
    /\ as_limit \in IF rn_variant = "A" THEN 1..MaxConcurrency ELSE {0}
    /\ as_queue = <<>> /\ as_in_queue = {}
    /\ as_wpc = [w \in 1..MaxConcurrency |-> "none"]
    /\ as_wfile = [w \in 1..MaxConcurrency |-> {}]
    /\ as_cancel = {}
    /\ as_ppc = "none" /\ as_pcancel = FALSE
    /\ as_shutdown = FALSE
    /\ sl_plugin = FALSE
    /\ sl_worker = [w \in ClusterWorkers |-> "absent"]
    /\ sl_batch = {} /\ sl_keys = {} /\ sl_active = {}
    /\ sl_live = [f \in ClusterFiles |-> 0]
    /\ sl_unit = [f \in ClusterFiles |-> [status |-> "none", worker |-> "none"]]

\* what no step of a runtime changes
runtimefixed == <<basevars, stagevars, ctxvars>>

----------------------------------------------------------------------------
(* LocalTask.start (tasks/local.py) *)

seqfixed == <<runtimefixed, asyncvars, slurmvars, rn_variant, rn_input>>

\* line 47: self._remove_temporary_files(output_dir)
SqCleanup ==
    /\ rn_variant = "S" /\ rn_pc = "start"
    /\ rn_pc' = "setup"
    /\ UNCHANGED <<seqfixed, seqvars, rn_out, rn_err, rn_ctx, rn_signals>>

\* line 50: setup_func(self.context)
SqSetup ==
    /\ rn_variant = "S" /\ rn_pc = "setup"
    /\ rn_ctx' = WithSetup(rn_ctx, ProcContext)
    /\ rn_pc' = "freeze"
    /\ UNCHANGED <<seqfixed, seqvars, rn_out, rn_err, rn_signals>>

\* line 51: self.context.freeze(); the try block is entered
SqFreeze ==
    /\ rn_variant = "S" /\ rn_pc = "freeze"
    /\ rn_ctx' = WithFreeze(rn_ctx, ProcContext)
    /\ rn_pc' = "scan"
    /\ UNCHANGED <<seqfixed, seqvars, rn_out, rn_err, rn_signals>>

\* lines 56-61: unprocessed_files = self._get_unprocessed_files(...)
SqScan ==
    /\ rn_variant = "S" /\ rn_pc = "scan"
    /\ sq_batch' = Unprocessed(rn_input, rn_out, rn_err)
    /\ rn_pc' = "iter"
    /\ UNCHANGED <<seqfixed, sq_cur, rn_out, rn_err, rn_ctx, rn_signals>>

\* lines 63-66, 37-38: the next file of the list, run_func begins
SqBegin ==
    /\ rn_variant = "S" /\ rn_pc = "iter"
    /\ \E f \in sq_batch :
           /\ sq_batch' = sq_batch \ {f}
           /\ sq_cur' = {f}
    /\ rn_ctx' = WithUse(rn_ctx, ProcContext)
    /\ rn_pc' = "run"
    /\ UNCHANGED <<seqfixed, rn_out, rn_err, rn_signals>>

\* lines 37-44: run_func returns and the output is renamed into place, or it
\* raises and the .err is, or writing the .err raises and nothing is written
SqEnd ==
    /\ rn_variant = "S" /\ rn_pc = "run"
    /\ \E outcome \in {"ok", "raise", "escape"} :
           /\ rn_out' = IF outcome = "ok" THEN rn_out \cup sq_cur ELSE rn_out
           /\ rn_err' = IF outcome = "raise" THEN rn_err \cup sq_cur ELSE rn_err
           /\ rn_pc' = IF outcome = "escape" THEN "finally" ELSE "iter"
    /\ sq_cur' = {}
    /\ UNCHANGED <<seqfixed, sq_batch, rn_ctx, rn_signals>>

\* line 68: time.sleep(3) once the list is exhausted
SqSleep ==
    /\ rn_variant = "S" /\ rn_pc = "iter" /\ sq_batch = {}
    /\ rn_pc' = "sleep"
    /\ UNCHANGED <<seqfixed, seqvars, rn_out, rn_err, rn_ctx, rn_signals>>

\* line 55: while True
SqWake ==
    /\ rn_variant = "S" /\ rn_pc = "sleep"
    /\ rn_pc' = "scan"
    /\ UNCHANGED <<seqfixed, seqvars, rn_out, rn_err, rn_ctx, rn_signals>>

\* lines 69-70: finally: teardown_func(self.context)
SqFinally ==
    /\ rn_variant = "S" /\ rn_pc = "finally"
    /\ rn_ctx' = WithTeardown(rn_ctx, ProcContext)
    /\ rn_pc' = "exited"
    /\ UNCHANGED <<seqfixed, seqvars, rn_out, rn_err, rn_signals>>

\* What a signal does to LocalTask, which installs no handler: SIGINT raises
\* KeyboardInterrupt where the main line is, and only lines 54-68 are inside
\* the try; the default action of SIGTERM ends the process at once.
SqDisposition(sig, pc) ==
    IF sig = SIGINT /\ pc \in {"scan", "iter", "run", "sleep"}
    THEN "finally"
    ELSE "killed"

\* a signal is delivered to the LocalTask process
SqSignal(sig) ==
    /\ rn_variant = "S" /\ rn_pc \notin {"exited", "killed"}
    /\ rn_signals' = rn_signals \cup {sig}
    /\ rn_pc' = SqDisposition(sig, rn_pc)
    /\ sq_cur' = {}
    /\ UNCHANGED <<seqfixed, sq_batch, rn_out, rn_err, rn_ctx>>

NextSeq ==
    \/ SqCleanup \/ SqSetup \/ SqFreeze \/ SqScan \/ SqBegin \/ SqEnd
    \/ SqSleep \/ SqWake \/ SqFinally
    \/ \E sig \in RnSignals : SqSignal(sig)

----------------------------------------------------------------------------
(* LocalAsyncTask.start (tasks/local_async.py). The coroutines share one    *)
(* thread: a step runs from one suspension point to the next.               *)

asyncfixed == <<runtimefixed, seqvars, slurmvars, rn_variant, rn_input, as_limit>>

Workers == 1..MaxConcurrency

\* one worker more than the limit
SpawnedOneMore(limit) == 1..(limit + 1)

\* line 105-107: asyncio.create_task(worker()) for _ in range(concurrency_limit)
Spawned(limit) == 1..limit

\* every unprocessed file is put on the queue again
ToEnqueueAll(unprocessed, in_queue) == unprocessed

\* lines 85-86: for file in unprocessed_files: if file not in self._in_queue
ToEnqueue(unprocessed, in_queue) == unprocessed \ in_queue

\* the files held by workers: their per-file callbacks are in flight
InFlight == UNION {as_wfile[w] : w \in Workers}

AllStopped ==
    /\ \A w \in Workers : as_wpc[w] \in {"none", "stopped"}
    /\ as_ppc \in {"none", "stopped"}

\* the orders in which iterdir() may list the files of a set
ListingsOf(S) == {q \in [1..Cardinality(S) -> S] : \A i, j \in DOMAIN q : q[i] = q[j] => i = j}

\* line 122: self._remove_temporary_files(output_dir); asyncio.run(main())
AsCleanup ==
    /\ rn_variant = "A" /\ rn_pc = "start"
    /\ rn_pc' = "setup"
    /\ UNCHANGED <<asyncfixed, as_queue, as_in_queue, as_wpc, as_wfile, as_cancel,
                   as_ppc, as_pcancel, as_shutdown, rn_out, rn_err, rn_ctx, rn_signals>>

\* line 95: await self.setup(self._context)
AsSetup ==
    /\ rn_variant = "A" /\ rn_pc = "setup"
    /\ rn_ctx' = WithSetup(rn_ctx, ProcContext)
    /\ rn_pc' = "freeze"
    /\ UNCHANGED <<asyncfixed, as_queue, as_in_queue, as_wpc, as_wfile, as_cancel,
                   as_ppc, as_pcancel, as_shutdown, rn_out, rn_err, rn_signals>>

\* line 96: self._context.freeze()
AsFreeze ==
    /\ rn_variant = "A" /\ rn_pc = "freeze"
    /\ rn_ctx' = WithFreeze(rn_ctx, ProcContext)
    /\ rn_pc' = "register"
    /\ UNCHANGED <<asyncfixed, as_queue, as_in_queue, as_wpc, as_wfile, as_cancel,
                   as_ppc, as_pcancel, as_shutdown, rn_out, rn_err, rn_signals>>

\* lines 100-111: the handlers are registered, the workers and the poller are
\* created, and main suspends on the shutdown event
AsSpawn ==
    /\ rn_variant = "A" /\ rn_pc = "register"
    /\ as_wpc' = [w \in Workers |-> IF w \in Spawned(as_limit) THEN "top" ELSE "none"]
    /\ as_ppc' = "scan"
    /\ rn_pc' = "wait"
    /\ UNCHANGED <<asyncfixed, as_queue, as_in_queue, as_wfile, as_cancel,
                   as_pcancel, as_shutdown, rn_out, rn_err, rn_ctx, rn_signals>>

\* line 63: while not self._shutdown_event.is_set()
AsWorkerTop(w) ==
    /\ rn_variant = "A" /\ as_wpc[w] = "top"
    /\ as_wpc' = [as_wpc EXCEPT ![w] = IF as_shutdown THEN "stopped" ELSE "get"]
    /\ as_cancel' = IF as_shutdown THEN as_cancel \ {w} ELSE as_cancel
    /\ UNCHANGED <<asyncfixed, as_queue, as_in_queue, as_wfile,
                   as_ppc, as_pcancel, as_shutdown, rn_out, rn_err, rn_pc, rn_ctx, rn_signals>>

\* lines 64-71, 50-52: file = await self._queue.get(); the callback begins
AsGet(w) ==
    /\ rn_variant = "A" /\ as_wpc[w] = "get" /\ w \notin as_cancel
    /\ as_queue # <<>>
    /\ as_wfile' = [as_wfile EXCEPT ![w] = {as_queue[1]}]
    /\ as_queue' = Tail(as_queue)
    /\ as_wpc' = [as_wpc EXCEPT ![w] = "run"]
    /\ rn_ctx' = WithUse(rn_ctx, ProcContext)
    /\ UNCHANGED <<asyncfixed, as_in_queue, as_cancel,
                   as_ppc, as_pcancel, as_shutdown, rn_out, rn_err, rn_pc, rn_signals>>

\* lines 52-53, 72-74: self.run returns, the output is renamed into place,
\* finally: task_done() and self._in_queue.remove(file)
AsRunOk(w) ==
    /\ rn_variant = "A" /\ as_wpc[w] = "run" /\ w \notin as_cancel
    /\ rn_out' = rn_out \cup as_wfile[w]
    /\ as_in_queue' = as_in_queue \ as_wfile[w]
    /\ as_wfile' = [as_wfile EXCEPT ![w] = {}]
    /\ as_wpc' = [as_wpc EXCEPT ![w] = "top"]
    /\ UNCHANGED <<asyncfixed, as_queue, as_cancel,
                   as_ppc, as_pcancel, as_shutdown, rn_err, rn_pc, rn_ctx, rn_signals>>

\* lines 54-58: self.run raises; the error report is being written
AsRunRaise(w) ==
    /\ rn_variant = "A" /\ as_wpc[w] = "run" /\ w \notin as_cancel
    /\ as_wpc' = [as_wpc EXCEPT ![w] = "errwrite"]
    /\ UNCHANGED <<asyncfixed, as_queue, as_in_queue, as_wfile, as_cancel,
                   as_ppc, as_pcancel, as_shutdown, rn_out, rn_err, rn_pc, rn_ctx, rn_signals>>

\* lines 57-60, 72-74: the .err is renamed into place, then the finally block
AsErrDone(w) ==
    /\ rn_variant = "A" /\ as_wpc[w] = "errwrite" /\ w \notin as_cancel
    /\ rn_err' = rn_err \cup as_wfile[w]
    /\ as_in_queue' = as_in_queue \ as_wfile[w]
    /\ as_wfile' = [as_wfile EXCEPT ![w] = {}]
    /\ as_wpc' = [as_wpc EXCEPT ![w] = "top"]
    /\ UNCHANGED <<asyncfixed, as_queue, as_cancel,
                   as_ppc, as_pcancel, as_shutdown, rn_out, rn_pc, rn_ctx, rn_signals>>

\* CancelledError is raised at the worker's suspension point: nothing is
\* taken from the queue, a callback in progress is abandoned, and the finally
\* block of lines 72-74 runs for a file that was held
AsWorkerCancelled(w) ==
    /\ rn_variant = "A" /\ w \in as_cancel
    /\ as_wpc[w] \in {"top", "get", "run", "errwrite"}
    /\ as_in_queue' = as_in_queue \ as_wfile[w]
    /\ as_wfile' = [as_wfile EXCEPT ![w] = {}]
    /\ as_wpc' = [as_wpc EXCEPT ![w] = "stopped"]
    /\ as_cancel' = as_cancel \ {w}
    /\ UNCHANGED <<asyncfixed, as_queue,
                   as_ppc, as_pcancel, as_shutdown, rn_out, rn_err, rn_pc, rn_ctx, rn_signals>>

\* the user's run catches CancelledError and goes on
AsSwallow(w) ==
    /\ rn_variant = "A" /\ w \in as_cancel /\ as_wpc[w] = "run"
    /\ as_cancel' = as_cancel \ {w}
    /\ UNCHANGED <<asyncfixed, as_queue, as_in_queue, as_wpc, as_wfile,
                   as_ppc, as_pcancel, as_shutdown, rn_out, rn_err, rn_pc, rn_ctx, rn_signals>>

\* lines 77-90: one round of poll, from the loop test to asyncio.sleep(3);
\* put() on an unbounded queue does not suspend
AsPoll ==
    /\ rn_variant = "A" /\ as_ppc = "scan" /\ ~as_pcancel
    /\ IF as_shutdown
       THEN /\ as_ppc' = "stopped"
            /\ UNCHANGED <<as_queue, as_in_queue>>
       ELSE /\ as_ppc' = "sleep"
            /\ \E order \in ListingsOf(ToEnqueue(Unprocessed(rn_input, rn_out, rn_err),
                                                 as_in_queue)) :
                   as_queue' = as_queue \o order
            /\ as_in_queue' = as_in_queue \cup
                   ToEnqueue(Unprocessed(rn_input, rn_out, rn_err), as_in_queue)
    /\ UNCHANGED <<asyncfixed, as_wpc, as_wfile, as_cancel,
                   as_pcancel, as_shutdown, rn_out, rn_err, rn_pc, rn_ctx, rn_signals>>

\* line 90: asyncio.sleep(3) returns
AsPollWake ==
    /\ rn_variant = "A" /\ as_ppc = "sleep" /\ ~as_pcancel
    /\ as_ppc' = "scan"
    /\ UNCHANGED <<asyncfixed, as_queue, as_in_queue, as_wpc, as_wfile, as_cancel,
                   as_pcancel, as_shutdown, rn_out, rn_err, rn_pc, rn_ctx, rn_signals>>

\* CancelledError is raised in poll
AsPollCancelled ==
    /\ rn_variant = "A" /\ as_pcancel /\ as_ppc \in {"scan", "sleep"}
    /\ as_ppc' = "stopped"
    /\ as_pcancel' = FALSE
    /\ UNCHANGED <<asyncfixed, as_queue, as_in_queue, as_wpc, as_wfile, as_cancel,
                   as_shutdown, rn_out, rn_err, rn_pc, rn_ctx, rn_signals>>

\* teardown entered as soon as the cancellations are requested
AwaitedNothing == TRUE

\* line 115: await asyncio.gather(*workers, poller, return_exceptions=True)
Awaited == AllStopped

\* lines 111-114: the event is set; for task in workers + [poller]: task.cancel()
AsCancel ==
    /\ rn_variant = "A" /\ rn_pc = "wait" /\ as_shutdown
    /\ as_cancel' = {w \in Workers : as_wpc[w] \in {"top", "get", "run", "errwrite"}}
    /\ as_pcancel' = (as_ppc \in {"scan", "sleep"})
    /\ rn_pc' = "gather"
    /\ UNCHANGED <<asyncfixed, as_queue, as_in_queue, as_wpc, as_wfile,
                   as_ppc, as_shutdown, rn_out, rn_err, rn_ctx, rn_signals>>

\* lines 115-116: gather returns; await self.teardown(self._context)
AsTeardown ==
    /\ rn_variant = "A" /\ rn_pc = "gather" /\ Awaited
    /\ rn_ctx' = WithTeardown(rn_ctx, ProcContext)
    /\ rn_pc' = "teardown"
    /\ UNCHANGED <<asyncfixed, as_queue, as_in_queue, as_wpc, as_wfile, as_cancel,
                   as_ppc, as_pcancel, as_shutdown, rn_out, rn_err, rn_signals>>

\* lines 117-119: teardown returns; sys.exit(128 + self._received_signal)
AsExit ==
    /\ rn_variant = "A" /\ rn_pc = "teardown"
    /\ rn_pc' = "exited"
    /\ UNCHANGED <<asyncfixed, as_queue, as_in_queue, as_wpc, as_wfile, as_cancel,
                   as_ppc, as_pcancel, as_shutdown, rn_out, rn_err, rn_ctx, rn_signals>>

\* A signal is delivered to the LocalAsyncTask process. Once lines 101-102
\* have run, _signal_handler (lines 28-31) sets the event; before that the
\* signal ends the process.
AsSignal(sig) ==
    /\ rn_variant = "A" /\ rn_pc \notin {"exited", "killed"}
    /\ rn_signals' = rn_signals \cup {sig}
    /\ IF rn_pc \in {"wait", "gather", "teardown"}
       THEN /\ as_shutdown' = TRUE
            /\ UNCHANGED rn_pc
       ELSE /\ rn_pc' = "killed"
            /\ UNCHANGED as_shutdown
    /\ UNCHANGED <<asyncfixed, as_queue, as_in_queue, as_wpc, as_wfile, as_cancel,
                   as_ppc, as_pcancel, rn_out, rn_err, rn_ctx>>

NextAsync ==
    \/ AsCleanup \/ AsSetup \/ AsFreeze \/ AsSpawn
    \/ \E w \in Workers :
           \/ AsWorkerTop(w) \/ AsGet(w) \/ AsRunOk(w) \/ AsRunRaise(w) \/ AsErrDone(w)
           \/ AsWorkerCancelled(w) \/ AsSwallow(w)
    \/ AsPoll \/ AsPollWake \/ AsPollCancelled
    \/ AsCancel \/ AsTeardown \/ AsExit
    \/ \E sig \in RnSignals : AsSignal(sig)

----------------------------------------------------------------------------
(* SlurmTask.start (tasks/slurm.py). The runtime only submits and collects;  *)
(* the callbacks run on the cluster's workers, each with its own context.    *)

slurmfixed == <<runtimefixed, seqvars, asyncvars, rn_variant, rn_input, rn_signals>>

NoUnit == [status |-> "none", worker |-> "none"]

\* every unprocessed file is submitted
ShouldSubmitAlways(file, active) == TRUE

\* line 120: if file not in active_futures
ShouldSubmit(file, active) == file \notin active

\* TaskWorkerPlugin.setup (lines 44-49) on the workers of a set
PluginSetup(ctx, ws) ==
    [c \in RnContexts |->
        IF c \in ws
        THEN [ctx[c] EXCEPT !.setups = @ + 1, !.frozen = TRUE]
        ELSE ctx[c]]

\* lines 103-104: client.register_plugin(TaskWorkerPlugin()): the plugin is
\* set up on the workers that are up
SlRegister ==
    /\ rn_variant = "C" /\ rn_pc = "start"
    /\ sl_plugin' = TRUE
    /\ rn_ctx' = PluginSetup(rn_ctx, {w \in ClusterWorkers : sl_worker[w] = "up"})
    /\ rn_pc' = "cleanup"
    /\ UNCHANGED <<slurmfixed, sl_worker, sl_batch, sl_keys, sl_active, sl_live, sl_unit,
                   rn_out, rn_err>>

\* line 107: self._remove_temporary_files(self.config.output_dir)
SlCleanup ==
    /\ rn_variant = "C" /\ rn_pc = "cleanup"
    /\ rn_pc' = "scan"
    /\ UNCHANGED <<slurmfixed, slurmvars, rn_out, rn_err, rn_ctx>>

\* lines 112-117: unprocessed_files = self._get_unprocessed_files(...)
SlScan ==
    /\ rn_variant = "C" /\ rn_pc = "scan"
    /\ sl_batch' = Unprocessed(rn_input, rn_out, rn_err)
    /\ rn_pc' = "dispatch"
    /\ UNCHANGED <<slurmfixed, sl_plugin, sl_worker, sl_keys, sl_active, sl_live, sl_unit,
                   rn_out, rn_err, rn_ctx>>

\* lines 119-127: the next file of the list; client.submit unless in flight
SlDispatch ==
    /\ rn_variant = "C" /\ rn_pc = "dispatch"
    /\ \E f \in sl_batch :
           /\ sl_batch' = sl_batch \ {f}
           /\ IF ShouldSubmit(f, sl_active)
              THEN /\ sl_active' = sl_active \cup {f}
                   /\ sl_live' = [sl_live EXCEPT ![f] = @ + 1]
                   /\ sl_unit' = [sl_unit EXCEPT ![f] = [status |-> "pending", worker |-> "none"]]
              ELSE UNCHANGED <<sl_active, sl_live, sl_unit>>
    /\ UNCHANGED <<slurmfixed, sl_plugin, sl_worker, sl_keys, rn_out, rn_err, rn_pc, rn_ctx>>

\* line 129: for key in list(active_futures.keys())
SlCollect ==
    /\ rn_variant = "C" /\ rn_pc = "dispatch" /\ sl_batch = {}
    /\ sl_keys' = sl_active
    /\ rn_pc' = "release"
    /\ UNCHANGED <<slurmfixed, sl_plugin, sl_worker, sl_batch, sl_active, sl_live, sl_unit,
                   rn_out, rn_err, rn_ctx>>

\* line 130: active_futures[key].done()
IsDone(unit) == unit.status = "done"

\* lines 130-132: if done: release() and del active_futures[key]
SlRelease ==
    /\ rn_variant = "C" /\ rn_pc = "release"
    /\ \E key \in sl_keys :
           /\ sl_keys' = sl_keys \ {key}
           /\ IF IsDone(sl_unit[key])
              THEN /\ sl_active' = sl_active \ {key}
                   /\ sl_unit' = [sl_unit EXCEPT ![key] = NoUnit]
              ELSE UNCHANGED <<sl_active, sl_unit>>
    /\ UNCHANGED <<slurmfixed, sl_plugin, sl_worker, sl_batch, sl_live,
                   rn_out, rn_err, rn_pc, rn_ctx>>

\* line 134: time.sleep(3), then the loop goes round
SlSleep ==
    /\ rn_variant = "C" /\ rn_pc = "release" /\ sl_keys = {}
    /\ rn_pc' = "scan"
    /\ UNCHANGED <<slurmfixed, slurmvars, rn_out, rn_err, rn_ctx>>

\* the cluster starts a worker job; a worker runs the setup of the registered
\* plugins before it takes work
WkUp(w) ==
    /\ rn_variant = "C" /\ sl_worker[w] = "absent"
    /\ sl_worker' = [sl_worker EXCEPT ![w] = "up"]
    /\ rn_ctx' = IF sl_plugin THEN PluginSetup(rn_ctx, {w}) ELSE rn_ctx
    /\ UNCHANGED <<slurmfixed, sl_plugin, sl_batch, sl_keys, sl_active, sl_live, sl_unit,
                   rn_out, rn_err, rn_pc>>

\* lines 56-61: a worker takes a pending unit; self.run(worker.context, ...) begins
UnitBegin(f, w) ==
    /\ rn_variant = "C" /\ sl_unit[f].status = "pending" /\ sl_worker[w] = "up"
    /\ sl_unit' = [sl_unit EXCEPT ![f] = [status |-> "running", worker |-> w]]
    /\ rn_ctx' = WithUse(rn_ctx, w)
    /\ UNCHANGED <<slurmfixed, sl_plugin, sl_worker, sl_batch, sl_keys, sl_active, sl_live,
                   rn_out, rn_err, rn_pc>>

\* lines 60-71: the unit ends with the output, with the .err, or with neither
\* (writing the .err raised)
UnitEnd(f) ==
    /\ rn_variant = "C" /\ sl_unit[f].status = "running"
    /\ \E outcome \in {"ok", "raise", "lost"} :
           /\ rn_out' = IF outcome = "ok" THEN rn_out \cup {f} ELSE rn_out
           /\ rn_err' = IF outcome = "raise" THEN rn_err \cup {f} ELSE rn_err
    /\ sl_unit' = [sl_unit EXCEPT ![f] = [status |-> "done", worker |-> "none"]]
    /\ sl_live' = [sl_live EXCEPT ![f] = @ - 1]
    /\ UNCHANGED <<slurmfixed, sl_plugin, sl_worker, sl_batch, sl_keys, sl_active,
                   rn_pc, rn_ctx>>

\* lines 51-54: a worker closes: TaskWorkerPlugin.teardown; the cluster hands
\* the units it was running to another worker
WkClose(w) ==
    /\ rn_variant = "C" /\ sl_worker[w] = "up"
    /\ sl_worker' = [sl_worker EXCEPT ![w] = "closed"]
    /\ rn_ctx' = IF rn_ctx[w].setups > 0 THEN WithTeardown(rn_ctx, w) ELSE rn_ctx
    /\ sl_unit' = [f \in ClusterFiles |->
                      IF sl_unit[f].worker = w
                      THEN [status |-> "pending", worker |-> "none"]
                      ELSE sl_unit[f]]
    /\ UNCHANGED <<slurmfixed, sl_plugin, sl_batch, sl_keys, sl_active, sl_live,
                   rn_out, rn_err, rn_pc>>

NextSlurm ==
    \/ SlRegister \/ SlCleanup \/ SlScan \/ SlDispatch \/ SlCollect \/ SlRelease \/ SlSleep
    \/ \E w \in ClusterWorkers : WkUp(w) \/ WkClose(w)
    \/ \E f \in ClusterFiles : UnitEnd(f) \/ \E w \in ClusterWorkers : UnitBegin(f, w)

NextRuntimes == NextSeq \/ NextAsync \/ NextSlurm

SpecRuntimes == InitRuntimes /\ [][NextRuntimes]_vars

----------------------------------------------------------------------------
(* Properties of the task runtimes *)

\* the main line of a local runtime is past the setup callback
PastSetup == rn_pc \notin {"start", "setup", "killed"} \/ rn_ctx[ProcContext].setups > 0

\* C24: in every variant the setup callback runs exactly once per context
\* (the process of LocalTask and LocalAsyncTask, each worker of SlurmTask),
\* and a per-file callback uses a context only after its setup has run and
\* the context is frozen.
C24_SetupOnce ==
    /\ \A c \in RnContexts :
           /\ rn_ctx[c].setups <= 1
           /\ rn_ctx[c].used => (rn_ctx[c].setups = 1 /\ rn_ctx[c].frozen)
    /\ (rn_variant \in {"S", "A"} /\ PastSetup) => rn_ctx[ProcContext].setups = 1
    /\ rn_variant = "C" =>
           \A w \in ClusterWorkers :
               (sl_plugin /\ sl_worker[w] = "up") => rn_ctx[w].setups = 1

\* two cluster workers have each run a callback with their own context
C24_Witness ==
    /\ rn_variant = "C"
    /\ \A w \in ClusterWorkers : rn_ctx[w].used /\ rn_ctx[w].setups = 1
    /\ rn_out # {}

\* workers whose per-file callback is in flight
Busy == {w \in Workers : as_wpc[w] \in {"run", "errwrite"}}

\* C26: in LocalAsyncTask a file is on the queue or held by a worker at most
\* once at any time: the queue holds no file twice, no queued file is held by
\* a worker, no two workers hold the same file, and every such file is in
\* _in_queue.
C26_QueueUniqueness ==
    rn_variant = "A" =>
        /\ Distinct(as_queue)
        /\ Range(as_queue) \cap InFlight = {}
        /\ \A w1, w2 \in Workers : w1 # w2 => as_wfile[w1] \cap as_wfile[w2] = {}
        /\ (Range(as_queue) \cup InFlight) \subseteq as_in_queue
        /\ \A w \in Workers : Cardinality(as_wfile[w]) <= 1

\* the poller is between two scans while one file is held by a worker, one is
\* queued and one is done
C26_Witness ==
    /\ rn_variant = "A"
    /\ as_ppc = "scan"
    /\ InFlight # {}
    /\ as_queue # <<>>
    /\ rn_out # {}
    /\ ~as_shutdown

\* C27: at no time are more than concurrency_limit per-file callbacks in
\* flight in LocalAsyncTask.
C27_ConcurrencyBound ==
    rn_variant = "A" => Cardinality(Busy) <= as_limit

\* limit 1, one callback in flight, two more files waiting on the queue
C27_Witness ==
    /\ rn_variant = "A"
    /\ as_limit = 1
    /\ Cardinality(Busy) = 1
    /\ Len(as_queue) = 2

\* C28: LocalAsyncTask invokes teardown at most once, after the shutdown event
\* was set and the cancellations were requested, and only when every worker
\* and the poller have stopped: no callback is running or can start once
\* teardown has begun.
C28_ShutdownOrder ==
    rn_variant = "A" =>
        /\ rn_ctx[ProcContext].teardowns <= 1
        /\ rn_pc \in {"gather", "teardown", "exited"} => as_shutdown
        /\ rn_pc \in {"teardown", "exited"} =>
               /\ rn_ctx[ProcContext].teardowns = 1
               /\ AllStopped
               /\ Busy = {} /\ InFlight = {}
        /\ rn_ctx[ProcContext].teardowns = 1 => rn_pc \in {"teardown", "exited"}

\* teardown has begun after a worker was cancelled while it held a file:
\* that file is unprocessed and no longer tracked, another is still queued
C28_Witness ==
    /\ rn_variant = "A"
    /\ rn_pc = "teardown"
    /\ as_limit = 2
    /\ \E f \in rn_input : f \notin (rn_out \cup rn_err) /\ f \notin as_in_queue
    /\ as_queue # <<>>

C30_TeardownOnShutdown ==
    (/\ rn_variant \in {"S", "A"}
     /\ rn_ctx[ProcContext].used
     /\ rn_signals # {}
     /\ rn_pc \in {"exited", "killed"}) =>
        rn_ctx[ProcContext].teardowns >= 1


----------------------------------------------------------------------------
(* Error reports, recovery at startup and the frame of the supervisor *)

ErrFiles(dir) == {n \in dir : EndsWith(n, ErrExt)}

\* C31 as stated: error markers persist: no step of the supervisor or of a
\* runtime, the supervisor's startup sweep included, removes a <stem>.err that
\* is in a task directory.
C31_ErrorMarkersPersist ==
    [][\A t \in Names : ErrFiles(taskdir[t]) \subseteq taskdir'[t]]_vars

\* C31: error markers persist while the supervisor runs: no tick, harvest or
\* runtime step removes a <stem>.err; the sweep of the next supervisor start
\* deletes every one of them.
C31_ErrorMarkersUntilRestart ==
    [][\A t \in Names :
          /\ sup_pc # "down" => ErrFiles(taskdir[t]) \subseteq taskdir'[t]
          /\ (sup_pc = "down" /\ sup_pc' # "down" /\ Cfg(t).output_ext # ErrExt)
                => ErrFiles(taskdir'[t]) = {}]_vars

\* a marker that was reported is still there after a harvest finished another stem
C31_Witness ==
    /\ sup_pc = "stage"
    /\ finished # {}
    /\ \E t \in Names :
          /\ ErrFiles(taskdir[t]) # {}
          /\ ErrFiles(taskdir[t]) \subseteq task_error_files[t]


----------------------------------------------------------------------------
(* A supervisor started on a workspace that an earlier run and the operator  *)
(* left behind: inputs were removed, files were dropped into .symlinks.      *)

RecoverInputs == {s \o RootInputExt(ChainConfig) : s \in Stems}
StrayNames == {<<"x">>, <<"c", ".", "t">>}
OutputsOf(task) == {s \o task.output_ext : s \in Stems}

InitRecover ==
    /\ tasks = ChainConfig
    /\ delete_input \in BOOLEAN
    \* the source of a.t is gone, that of b.t is there
    /\ input_dir = {<<"b", ".", "t">>}
    /\ symlinks \in SUBSET RecoverInputs
    /\ finished = {}
    /\ strays \in {{}, StrayNames}
    /\ taskdir \in [TaskNames -> SUBSET UNION {OutputsOf(ChainConfig[i]) : i \in 1..Len(ChainConfig)}]
    /\ \A t \in TaskNames :
          taskdir[t] \subseteq
             (IF t \in NamesOf(ChainConfig) THEN OutputsOf(TaskByName(ChainConfig, t)) ELSE {})
    /\ visible = EmptyByTask
    /\ sup_pc = "down"
    /\ runs = 0
    /\ filenames = {}
    /\ task_error_files = EmptyByTask
    /\ completed = {}
    /\ clean_i = 0
    /\ clean_todo = {}
    /\ rec_todo = {}
    /\ rec_cur = NoName
    /\ rt_pc = [t \in TaskNames |-> "dead"]
    /\ rt_processed = EmptyByTask
    /\ rt_batch = EmptyByTask
    /\ rt_cur = [t \in TaskNames |-> NoName]
    /\ rt_tmp = [t \in TaskNames |-> NoName]
    /\ produced = ZeroProduced
    /\ settled = EmptyByTask
    /\ swept = NothingSwept
    /\ killed = [t \in TaskNames |-> {}]
    /\ starts = 0
    /\ AwIdle /\ PidIdle /\ LockIdle /\ LifeIdle /\ GraphIdle
    /\ StageIdle /\ CtxIdle /\ RuntimeIdle

SpecRecover == InitRecover /\ [][Next]_vars

\* the entries of .symlinks whose target exists when the sweep looks at them
Healthy == {n \in symlinks : n \in input_dir'}

\* C32: orphan recovery: the supervisor's start removes every entry of
\* .symlinks that is not a symlink or whose target is missing, deletes every
\* task's <stem><output_ext> of each broken symlink it removed, and leaves the
\* symlinks whose target exists and the outputs of their stems.
C32_OrphanRecovery ==
    [][(sup_pc = "down" /\ sup_pc' # "down") =>
          /\ symlinks' = Healthy
          /\ strays' = {}
          /\ \A n \in symlinks \ Healthy : \A t \in Names :
                OutputName(t, StemOf(n)) \notin taskdir'[t]
          /\ \A n \in Healthy : \A t \in Names :
                OutputName(t, StemOf(n)) \in taskdir[t]
                   => OutputName(t, StemOf(n)) \in taskdir'[t]]_vars

\* the first start has removed a broken symlink and a stray file, and kept a
\* symlink whose target exists together with the outputs of its stem
C32_Witness ==
    /\ runs = 1
    /\ sup_pc = "stage"
    /\ \A t \in Names : rt_pc[t] = "start"
    /\ swept.broken # {}
    /\ swept.strays # {}
    /\ \E n \in symlinks : \A t \in Names : OutputName(t, StemOf(n)) \in taskdir[t]
    /\ \A n \in swept.broken : \A t \in Names : OutputName(t, StemOf(n)) \notin taskdir[t]


\* a task that reads .symlinks
IsRoot(t) == Cfg(t).depends_on = NoTask

\* _filenames holds every name of .symlinks and of .finished while the
\* supervisor is up, and a staging step adds no name it holds or that is finished
StagedOnce ==
    /\ [](sup_pc # "down" => symlinks \cup finished \subseteq filenames)
    /\ [][(symlinks' \ symlinks) \cap (filenames \cup finished) = {}]_vars

\* a finished input that is still in the input directory was processed once
\* by every task, and no callback of a root task is given a finished name
ProcessedOnce ==
    /\ \A n \in finished \cap input_dir : \A t \in Names : produced[t][StemOf(n)] <= 1
    /\ \A t \in Names : (IsRoot(t) /\ rt_pc[t] = "run") => rt_cur[t] \notin finished

\* C33: no re-staging: a name that is in .symlinks or in .finished is never
\* staged again, within a run and after a restart, and an input that stays in
\* the input directory after it finished is processed only once.
C33_NoRestaging == StagedOnce /\ []ProcessedOnce


\* C34: the harvest tolerates missing files: when a task's <stem><output_ext>
\* is absent for a completed stem the clean-up loop skips it and goes on to
\* the symlink and the marker; a missing file never aborts the supervisor.
C34_HarvestToleratesMissing ==
    [][sup_pc = "clean" => sup_pc' # "failed"]_vars


----------------------------------------------------------------------------
(* A task runtime started by its own command (LocalTask.cli) on a workspace  *)
(* whose supervisor is not running, killed at any point and started again.   *)

\* how many times a runtime is started again
MaxStarts == 2

InitReplay ==
    /\ \E cfg \in {SingleConfig, ChainConfig} :
          /\ tasks = cfg
          /\ input_dir = {s \o RootInputExt(cfg) : s \in Stems}
          /\ symlinks = {s \o RootInputExt(cfg) : s \in Stems}
          /\ rt_pc = [t \in TaskNames |-> IF t \in NamesOf(cfg) THEN "start" ELSE "dead"]
    /\ delete_input = FALSE
    /\ finished = {}
    /\ taskdir = EmptyByTask
    /\ visible = EmptyByTask
    /\ sup_pc = "down"
    /\ runs = 0
    /\ filenames = {}
    /\ task_error_files = EmptyByTask
    /\ completed = {}
    /\ clean_i = 0
    /\ clean_todo = {}
    /\ rec_todo = {}
    /\ rec_cur = NoName
    /\ rt_processed = EmptyByTask
    /\ rt_batch = EmptyByTask
    /\ rt_cur = [t \in TaskNames |-> NoName]
    /\ rt_tmp = [t \in TaskNames |-> NoName]
    /\ produced = ZeroProduced
    /\ settled = EmptyByTask
    /\ RecIdle
    /\ AwIdle /\ PidIdle /\ LockIdle /\ LifeIdle /\ GraphIdle
    /\ StageIdle /\ CtxIdle /\ RuntimeIdle

\* what a kill or a start of one runtime leaves alone
replayfixed == <<tasks, delete_input, fsvars, supvars, histvars, awvars,
                 pidvars, lockvars, lifevars, graphvars,
                 stagevars, ctxvars, runtimevars, strays, swept>>

\* the runtime process is killed (SIGKILL, or SIGTERM, for which LocalTask
\* installs no handler); a callback cancelled inside atomic_write ends the
\* same way, CancelledError being no Exception: no unlink and no rename
RtKill(t) ==
    /\ rt_pc[t] # "dead"
    /\ killed' = [killed EXCEPT ![t] =
                     IF rt_pc[t] \in {"run", "err"} THEN {rt_cur[t]} ELSE {}]
    /\ rt_pc' = [rt_pc EXCEPT ![t] = "dead"]
    /\ rt_processed' = [rt_processed EXCEPT ![t] = {}]
    /\ rt_batch' = [rt_batch EXCEPT ![t] = {}]
    /\ rt_cur' = [rt_cur EXCEPT ![t] = NoName]
    /\ rt_tmp' = [rt_tmp EXCEPT ![t] = NoName]
    /\ UNCHANGED <<replayfixed, starts>>

\* the task's command is run again on the same directories
RtRunAgain(t) ==
    /\ rt_pc[t] = "dead"
    /\ starts < MaxStarts
    /\ starts' = starts + 1
    /\ rt_pc' = [rt_pc EXCEPT ![t] = "start"]
    /\ UNCHANGED <<replayfixed, killed, rt_processed, rt_batch, rt_cur, rt_tmp>>

\* the steps a live runtime takes by itself
RtStep(t) ==
    \/ RtStart(t)
    \/ RtScanOutput(t)
    \/ RtScanInput(t)
    \/ RtBegin(t)
    \/ RtReturn(t)
    \/ RtRaise(t)
    \/ RtErrCommit(t)

NextReplay ==
    \/ \E t \in Names : RtStep(t)
    \/ \E t \in Names : RtKill(t)
    \/ \E t \in Names : RtRunAgain(t)

\* a runtime that is not killed goes on: each is a process of its own
SpecReplay ==
    /\ InitReplay
    /\ [][NextReplay]_vars
    /\ \A t \in TaskNames : WF_vars(t \in Names /\ RtStep(t))

\* every name an input directory of a task can hold
AllInputNames ==
    {s \o e : s \in Stems, e \in {<<".", "t">>, <<".", "o">>}}

\* a runtime killed in a callback leaves its directory as it is, with the
\* temporary file and neither the output nor the .err of that file
KillLeavesTemporary ==
    \A t \in Names :
        (rt_pc[t] \in {"run", "err"} /\ rt_pc'[t] = "dead") =>
            /\ taskdir'[t] = taskdir[t]
            /\ rt_tmp[t] \in taskdir[t] /\ Suffix(rt_tmp[t]) = <<>>
            /\ OutputName(t, FileId(t)) \notin taskdir[t]
            /\ ErrName(FileId(t)) \notin taskdir[t]

\* start() has removed every extension-less file when it goes to its first scan
CleanBeforeFirstScan ==
    \A t \in Names :
        (rt_pc[t] = "start" /\ rt_pc'[t] = "scan") =>
            \A n \in taskdir'[t] : Suffix(n) # <<>>

\* C35: idempotent replay: a runtime killed or cancelled while it processes a
\* file leaves only an extension-less temporary of that file, no output and no
\* .err; the next start deletes every extension-less file of its output
\* directory before its first scan, and then processes the file again.
C35_IdempotentReplay ==
    /\ [][KillLeavesTemporary /\ CleanBeforeFirstScan]_vars
    /\ \A t \in TaskNames : \A f \in AllInputNames :
          (t \in Names /\ rt_pc[t] = "start" /\ f \in killed[t])
             ~> (\/ rt_pc[t] = "run" /\ rt_cur[t] = f
                 \/ rt_pc[t] = "dead"
                 \/ f \notin InputFiles(t))

\* the callback of a file runs again after a kill interrupted it, the stale
\* temporary being gone
C35_Witness ==
    \E t \in Names :
        /\ starts > 0
        /\ rt_pc[t] = "run"
        /\ rt_cur[t] \in killed[t]
        /\ taskdir[t] \cap MkstempNames = {rt_tmp[t]}


----------------------------------------------------------------------------
(* The supervisor and the runtimes as processes that the operating system    *)
(* schedules fairly: each goes on to its next step as long as it has one.    *)

FairScenarios ==
    { Scenario(SingleConfig, Stems, FALSE),
      Scenario(ChainConfig, {<<"a">>}, FALSE),
      Scenario(BranchConfig, {<<"a">>}, TRUE) }

InitFair ==
    /\ InitPipeline
    /\ \E sc \in FairScenarios :
          /\ tasks = sc.tasks
          /\ input_dir = {s \o RootInputExt(sc.tasks) : s \in sc.inputs}
          /\ delete_input = sc.delete_input
    /\ AwIdle /\ ExtIdle

\* the steps of the main loop, and the end of run() after an exception
SupStep ==
    \/ SupStage
    \/ SupReport
    \/ SupHarvest
    \/ SupClean
    \/ SupUnlink
    \/ SupDeleteSource
    \/ SupTouch
    \/ SupAbort

NextFair ==
    \/ SupStart
    \/ SupStep
    \/ \E t \in Names : RtStep(t)

SpecFair ==
    /\ InitFair
    /\ [][NextFair]_vars
    /\ WF_vars(SupStep)
    /\ \A t \in TaskNames : WF_vars(t \in Names /\ RtStep(t))

\* the stem of a staged name is retired: marker, no symlink, no output left
Retired(n) ==
    /\ n \in finished
    /\ n \notin symlinks
    /\ \A t \in Names : OutputName(t, StemOf(n)) \notin taskdir[t]

\* the callback failed for the stem of n in some task
CallbackFailed(n) == \E t \in Names : ErrName(StemOf(n)) \in taskdir[t]

SomeRuntimeDead == \E t \in Names : rt_pc[t] = "dead"

\* C36: progress: under fair scheduling a staged file eventually has its
\* .finished marker, no symlink and no output left in any internal task
\* directory, unless a task runtime stops or the callback fails for its stem
\* in some task.
C36_Progress ==
    \A n \in RecoverInputs :
        (n \in symlinks) ~> (Retired(n) \/ CallbackFailed(n) \/ SomeRuntimeDead)

\* a stem went through a chain of tasks and was retired, every runtime alive
C36_Witness ==
    /\ Len(tasks) > 1
    /\ ~SomeRuntimeDead
    /\ sup_pc = "stage"
    /\ \E n \in finished : Retired(n) /\ ~CallbackFailed(n)


\* a success output appears only as the output of the file whose callback ran
OutputFromCallback(t) ==
    \A n \in taskdir'[t] \ taskdir[t] :
        EndsWith(n, Cfg(t).output_ext) =>
            rt_pc[t] = "run" /\ n = OutputName(t, FileId(t))

\* a callback is entered only for a file of the batch the last scan returned
CallbackFromBatch(t) ==
    (rt_cur'[t] # rt_cur[t] /\ rt_cur'[t] # NoName) => rt_cur'[t] \in rt_batch[t]

\* a scan returns only names that are in .symlinks (root task) or that are
\* <stem><output_ext> of the parent in the parent's directory
BatchFromInput(t) ==
    \A f \in rt_batch'[t] \ rt_batch[t] :
        IF IsRoot(t)
        THEN f \in symlinks
        ELSE /\ f \in taskdir[Cfg(t).depends_on]
             /\ EndsWith(f, Cfg(Cfg(t).depends_on).output_ext)

\* C37: causal order within a stem: a root task produces the output of a stem
\* only after .symlinks/<stem> was created, a non-root task only after its
\* parent's <stem><output_ext> existed: every output comes from a callback,
\* every callback from a scan, and every scan from what its input directory
\* held; what a root runtime holds is a name the supervisor has staged.
C37_CausalOrder ==
    /\ [][\A t \in Names :
             OutputFromCallback(t) /\ CallbackFromBatch(t) /\ BatchFromInput(t)]_vars
    /\ [](\A t \in Names :
             (IsRoot(t) /\ sup_pc # "down") =>
                 rt_batch[t] \cup ({rt_cur[t]} \ {NoName}) \subseteq filenames)

\* a child's callback runs on an output its parent wrote during this run, the
\* root having been given the staged name
C37_Witness ==
    \E t \in Names :
        /\ ~IsRoot(t)
        /\ rt_pc[t] = "run"
        /\ rt_cur[t] \in taskdir[Cfg(t).depends_on]
        /\ produced[Cfg(t).depends_on][FileId(t)] = 1
        /\ FileId(t) \o RootExt \in symlinks


\* C38: input safety: with delete_input off no step of the supervisor removes
\* a file of the input directory; with delete_input on the start removes only
\* sources whose name is in .finished and a tick removes only the source of a
\* stem that the harvest in progress selected.
C38_InputSafety ==
    [][/\ ~delete_input => input_dir' = input_dir
       /\ input_dir' \subseteq input_dir
       /\ \A n \in input_dir \ input_dir' :
             IF sup_pc = "down"
             THEN n \in finished
             ELSE StemOf(n) \in completed /\ n \notin symlinks]_vars

\* with delete_input on, in a second run, the harvest has just deleted the
\* source of a stem it selected; no finished name has its source any more
C38_Witness ==
    /\ delete_input
    /\ runs = 2
    /\ sup_pc = "touch"
    /\ rec_cur \notin input_dir
    /\ finished # {}
    /\ finished \cap input_dir = {}


----------------------------------------------------------------------------
(* The main loop with a staging chain: each tick hands the new files of the  *)
(* input directory and the number of staged files to StagingPipeline.process *)
(* and stages what it returns.  Files are the path names of the chain; the   *)
(* tasks are left out, a staged file completes at any harvest.               *)

\* the steps that may precede the last one
CapacityPrefixes ==
    { <<>>, <<Step("min_size", 2, "")>>, <<Step("sort_by", 1, "size")>>,
      <<Step("max_batch", 1, "")>>, <<Step("companion_file", 0, ".m"), Step("max_batch", 2, "")>> }

\* chains that end with max_staged
CapacityChains ==
    {p \o <<Step("max_staged", n, "")>> : p \in CapacityPrefixes, n \in 1..MaxCount}

\* the count of the max_staged step that ends the chain
Capacity == st_steps[Len(st_steps)].n

InitCapacity ==
    /\ tasks = SingleConfig
    /\ delete_input = FALSE
    /\ st_steps \in CapacityChains
    /\ input_dir \in SUBSET StFiles
    /\ symlinks \in SUBSET input_dir
    /\ Cardinality(symlinks) <= Capacity
    /\ finished = {}
    /\ taskdir = EmptyByTask
    /\ visible = EmptyByTask
    /\ sup_pc = "down"
    /\ runs = 0
    /\ filenames = {}
    /\ task_error_files = EmptyByTask
    /\ completed = {}
    /\ clean_i = 0
    /\ clean_todo = {}
    /\ rec_todo = {}
    /\ rec_cur = NoName
    /\ rt_pc = [t \in TaskNames |-> "dead"]
    /\ rt_processed = EmptyByTask
    /\ rt_batch = EmptyByTask
    /\ rt_cur = [t \in TaskNames |-> NoName]
    /\ rt_tmp = [t \in TaskNames |-> NoName]
    /\ produced = ZeroProduced
    /\ settled = EmptyByTask
    /\ st_candidates = <<>>
    /\ st_staged = 0
    /\ st_pc = "none"
    /\ st_result = <<>>
    /\ st_calls = <<>>
    /\ AwIdle /\ PidIdle /\ LockIdle /\ LifeIdle /\ GraphIdle
    /\ CtxIdle /\ RuntimeIdle /\ RecIdle

\* what the ticks of this loop leave alone
capacityfixed == <<recvars, tasks, delete_input, taskdir, visible, runs, task_error_files,
                   completed, clean_i, clean_todo, rec_todo, rec_cur, rtvars, histvars,
                   awvars, pidvars, lockvars, lifevars, graphvars, ctxvars, runtimevars,
                   st_steps, st_pc>>

\* Pipeline.__init__, lines 99-105
CpStart ==
    /\ sup_pc = "down"
    /\ filenames' = KnownFilenames(symlinks, finished)
    /\ sup_pc' = "stage"
    /\ UNCHANGED <<capacityfixed, input_dir, symlinks, finished,
                   st_candidates, st_staged, st_result, st_calls>>

\* the new files of the input directory, in the order of the listing
WaitingFiles(inp, known) ==
    LET new(f) == f \in inp /\ f \notin known IN SelectSeq(StFileList, new)

\* stage new files: the candidates and a snapshot of the staged count go
\* through the chain, every survivor is linked and remembered
CpStage ==
    /\ sup_pc = "stage"
    /\ LET candidates == WaitingFiles(input_dir, filenames)
           staged == Cardinality(symlinks)
           r == Process(st_steps, candidates, staged)
       IN  /\ st_candidates' = candidates
           /\ st_staged' = staged
           /\ st_result' = r.result
           /\ st_calls' = r.calls
           /\ symlinks' = symlinks \cup Range(r.result)
           /\ filenames' = filenames \cup Range(r.result)
    /\ sup_pc' = "harvest"
    /\ UNCHANGED <<capacityfixed, input_dir, finished>>

\* _process_completed_files, lines 256-265, for the stems that completed
CpHarvest ==
    /\ sup_pc = "harvest"
    /\ \E done \in SUBSET symlinks :
          /\ symlinks' = symlinks \ done
          /\ finished' = finished \cup done
    /\ sup_pc' = "stage"
    /\ UNCHANGED <<capacityfixed, input_dir, filenames,
                   st_candidates, st_staged, st_result, st_calls>>

\* the operator puts one more file into the input directory
CpArrive ==
    /\ \E f \in StFiles \ input_dir : input_dir' = input_dir \cup {f}
    /\ UNCHANGED <<capacityfixed, symlinks, finished, filenames, sup_pc,
                   st_candidates, st_staged, st_result, st_calls>>

\* the supervisor is stopped between two ticks
CpStop ==
    /\ sup_pc = "stage"
    /\ sup_pc' = "down"
    /\ filenames' = {}
    /\ UNCHANGED <<capacityfixed, input_dir, symlinks, finished,
                   st_candidates, st_staged, st_result, st_calls>>

NextCapacity == CpStart \/ CpStage \/ CpHarvest \/ CpArrive \/ CpStop

SpecCapacity == InitCapacity /\ [][NextCapacity]_vars

----------------------------------------------------------------------------
(* Restart against an existing workspace *)

\* neither Pipeline.__init__ nor a runtime's start removes the output of a
\* stem whose symlink has its target
StartupKeepsOutputs ==
    [][/\ (sup_pc = "down" /\ sup_pc' # "down") =>
             \A n \in Healthy : \A t \in Names :
                OutputName(t, StemOf(n)) \in taskdir[t]
                   => OutputName(t, StemOf(n)) \in taskdir'[t]
       /\ \A t \in Names : (rt_pc[t] = "start" /\ rt_pc'[t] = "scan") =>
             \A n \in symlinks \cap input_dir :
                OutputName(t, StemOf(n)) \in taskdir[t]
                   => OutputName(t, StemOf(n)) \in taskdir'[t]]_vars

\* no callback runs for a stem whose output the task had when the run started
NoReprocessing ==
    \A t \in Names :
       rt_pc[t] = "run" => OutputName(t, FileId(t)) \notin swept.kept[t]

\* C40: restart preserves completed work: the supervisor's startup sweep and
\* a runtime's startup cleanup keep every <stem><output_ext> of a stem whose
\* symlink target exists, and after a restart no task processes again a stem
\* it had already completed.
C40_RestartPreservesWork == StartupKeepsOutputs /\ []NoReprocessing

====
